---- MODULE Spec2Model ----
(***************************************************************************)
(* Model of znkr.io/diff: the top-level diff driver (internal/impl/api.go),*)
(* the Myers middle-snake engine (internal/impl/myers.go), the result      *)
(* vectors and the hunk grouper (internal/rvecs), the edit/hunk conversion *)
(* of package diff, the unified formatter of package textdiff and the      *)
(* indent heuristic (internal/indentheuristic).                            *)
(*                                                                         *)
(* Go slices are 0-indexed.  Input sequences are TLA+ sequences and        *)
(* At(q, i) reads the element with Go index i.  Result vectors and         *)
(* v-arrays are functions over 0..len-1.                                   *)
(***************************************************************************)
EXTENDS Integers, Sequences, FiniteSets, TLC

VARIABLES
    x,      \* left input (elements, or lines of text)
    y,      \* right input
    cfg,    \* config.Config of the call plus the entry point that was called
    pc,     \* position of the call: "start", "diffed", "done"
    rx,     \* result vector for x, len(x)+1 entries
    ry,     \* result vector for y, len(y)+1 entries
    aux,    \* trace of the last impl.Diff / impl.DiffFunc call
    out     \* what the entry point returned

vars == <<x, y, cfg, pc, rx, ry, aux, out>>

----------------------------------------------------------------------------
(* Bounds of the model *)

MaxLen == 3

\* Largest value given to diff.Context.
MaxContext == 2

\* Element values of the generic inputs.
Vals == {1, 2, 3}

----------------------------------------------------------------------------
(* Small helpers *)

At(q, i) == q[i + 1]

\* len(v) - 1 of a Go slice modelled as a function over 0..len-1.
LastIndex(v) == Cardinality(DOMAIN v) - 1

\* The value of a function with a one-element domain.  With([v \in {e} |-> b])
\* is b with v bound to the value of e, which is computed once.
With(f) == f[CHOOSE a \in DOMAIN f : TRUE]

Max2(a, b) == IF a >= b THEN a ELSE b
Min2(a, b) == IF a <= b THEN a ELSE b

SeqsUpTo(S, n) == UNION {[1..k -> S] : k \in 0..n}

\* Stand-ins for math.MinInt / math.MaxInt, which only serve as sentinels that
\* lose (win) every comparison with a coordinate.
MinInt == -1000000
MaxInt == 1000000

\* The equality used by the comparison: "eq" is Go's == (Diff); "mod2" is a
\* caller-supplied eq of DiffFunc that is coarser than ==.
Equal(eqk, a, b) ==
    IF eqk = "eq" THEN a = b ELSE (a % 2) = (b % 2)

\* Number of set bits of r in [lo, hi).
RECURSIVE Popcount(_, _, _)
Popcount(r, lo, hi) ==
    IF lo >= hi THEN 0 ELSE (IF r[lo] THEN 1 ELSE 0) + Popcount(r, lo + 1, hi)

\* r with r[i] = TRUE for every lo <= i < hi.
SetRange(r, lo, hi) == [i \in DOMAIN r |-> IF lo <= i /\ i < hi THEN TRUE ELSE r[i]]

\* r with r[idx[i]] = TRUE for every lo <= i < hi (idx is a Go slice).
SetMapped(r, idx, lo, hi) ==
    [i \in DOMAIN r |-> IF \E j \in lo..(hi - 1) : At(idx, j) = i THEN TRUE ELSE r[i]]

----------------------------------------------------------------------------
(* internal/rvecs: result vectors *)

Make(xs, ys) ==
    [rx |-> [i \in 0..Len(xs) |-> FALSE], ry |-> [i \in 0..Len(ys) |-> FALSE]]

----------------------------------------------------------------------------
(* internal/impl/api.go: change bounds *)

RECURSIVE StripPrefix(_, _, _, _, _, _, _)
StripPrefix(eqk, xs, ys, smin, smax, tmin, tmax) ==
    IF smin < smax /\ tmin < tmax /\ Equal(eqk, At(xs, smin), At(ys, tmin))
    THEN StripPrefix(eqk, xs, ys, smin + 1, smax, tmin + 1, tmax)
    ELSE smin

RECURSIVE StripSuffix(_, _, _, _, _, _, _)
StripSuffix(eqk, xs, ys, smin, smax, tmin, tmax) ==
    IF smax > smin /\ tmax > tmin /\ Equal(eqk, At(xs, smax - 1), At(ys, tmax - 1))
    THEN StripSuffix(eqk, xs, ys, smin, smax - 1, tmin, tmax - 1)
    ELSE smax

\* A variant of findChangeBoundsFunc that strips neither prefix nor suffix.
findChangeBoundsFuncNoStrip(xs, ys, eqk) ==
    [smin |-> 0, smax |-> Len(xs), tmin |-> 0, tmax |-> Len(ys)]

findChangeBoundsFunc(xs, ys, eqk) ==
    LET p    == StripPrefix(eqk, xs, ys, 0, Len(xs), 0, Len(ys))
        smax == StripSuffix(eqk, xs, ys, p, Len(xs), p, Len(ys))
    IN  [smin |-> p, smax |-> smax, tmin |-> p, tmax |-> Len(ys) - (Len(xs) - smax)]

findChangeBounds(xs, ys) == findChangeBoundsFunc(xs, ys, "eq")

\* A variant of handleTrivialBounds that takes the upper bounds as inclusive.
handleTrivialBoundsInclusive(r, smin, smax, tmin, tmax) ==
    CASE smin # smax /\ tmin = tmax ->
            [rx |-> SetRange(r.rx, smin, smax + 1), ry |-> r.ry, trivial |-> TRUE]
      [] smin = smax /\ tmin # tmax ->
            [rx |-> r.rx, ry |-> SetRange(r.ry, tmin, tmax + 1), trivial |-> TRUE]
      [] smin = smax /\ tmin = tmax ->
            [rx |-> r.rx, ry |-> r.ry, trivial |-> TRUE]
      [] OTHER ->
            [rx |-> r.rx, ry |-> r.ry, trivial |-> FALSE]

\* Returns the result vectors and whether the bounds were trivial.
handleTrivialBounds(r, smin, smax, tmin, tmax) ==
    CASE smin # smax /\ tmin = tmax ->
            [rx |-> SetRange(r.rx, smin, smax), ry |-> r.ry, trivial |-> TRUE]
      [] smin = smax /\ tmin # tmax ->
            [rx |-> r.rx, ry |-> SetRange(r.ry, tmin, tmax), trivial |-> TRUE]
      [] smin = smax /\ tmin = tmax ->
            [rx |-> r.rx, ry |-> r.ry, trivial |-> TRUE]
      [] OTHER ->
            [rx |-> r.rx, ry |-> r.ry, trivial |-> FALSE]

----------------------------------------------------------------------------
(* internal/impl/api.go: preprocess *)

\* The temporary map idx from element to ID: ids lists the elements in the
\* order they were first seen, the ID of an element is its Go index in ids.
HasId(ids, e) == \E i \in 1..Len(ids) : ids[i] = e
IdOf(ids, e) == (CHOOSE i \in 1..Len(ids) : ids[i] = e) - 1

\* Step 1: an ID for every element of x[smin:smax], occurrences counted 1, 2.
RECURSIVE preprocessX(_, _, _, _)
preprocessX(xs, j, smax, acc) ==
    IF j >= smax THEN acc
    ELSE LET e   == At(xs, j)
             ids == IF HasId(acc.ids, e) THEN acc.ids ELSE Append(acc.ids, e)
             id  == IdOf(ids, e)
             c   == acc.counts[id]
         IN  preprocessX(xs, j + 1, smax,
                 [ids    |-> ids,
                  counts |-> IF c < 2 THEN [acc.counts EXCEPT ![id] = c + 1] ELSE acc.counts,
                  x0     |-> Append(acc.x0, id)])

\* A variant of step 2 that drops the elements of y that are not in x without
\* marking them as insertions.
RECURSIVE preprocessYUnmarked(_, _, _, _, _)
preprocessYUnmarked(ys, ids, j, tmax, acc) ==
    IF j >= tmax THEN acc
    ELSE LET e == At(ys, j)
         IN  IF ~HasId(ids, e)
             THEN preprocessYUnmarked(ys, ids, j + 1, tmax, acc)
             ELSE LET id == IdOf(ids, e)
                      c  == acc.counts[id]
                  IN  preprocessYUnmarked(ys, ids, j + 1, tmax,
                          [acc EXCEPT !.counts = IF c < 8 THEN [@ EXCEPT ![id] = c + 4] ELSE @,
                                      !.yidx   = Append(@, j),
                                      !.y0     = Append(@, id)])

\* Step 2: the same for y[tmin:tmax]; elements not in x are insertions.
RECURSIVE preprocessY(_, _, _, _, _)
preprocessY(ys, ids, j, tmax, acc) ==
    IF j >= tmax THEN acc
    ELSE LET e == At(ys, j)
         IN  IF ~HasId(ids, e)
             THEN preprocessY(ys, ids, j + 1, tmax, [acc EXCEPT !.ry[j] = TRUE])
             ELSE LET id == IdOf(ids, e)
                      c  == acc.counts[id]
                  IN  preprocessY(ys, ids, j + 1, tmax,
                          [acc EXCEPT !.counts = IF c < 8 THEN [@ EXCEPT ![id] = c + 4] ELSE @,
                                      !.yidx   = Append(@, j),
                                      !.y0     = Append(@, id)])

\* A variant of step 3 that counts every retained element as an anchor.
RECURSIVE preprocessFilterCountAll(_, _, _, _, _)
preprocessFilterCountAll(x0, counts, smin, j, acc) ==
    IF j >= Len(x0) THEN acc
    ELSE LET e == At(x0, j)
             c == counts[e]
         IN  IF c > 4
             THEN preprocessFilterCountAll(x0, counts, smin, j + 1,
                      [acc EXCEPT !.xidx     = Append(@, j + smin),
                                  !.x0       = Append(@, e),
                                  !.nanchors = @ + 1])
             ELSE preprocessFilterCountAll(x0, counts, smin, j + 1,
                      [acc EXCEPT !.rx[j + smin] = TRUE])

\* Step 3: filter out the elements of x0 that are not in y.
RECURSIVE preprocessFilter(_, _, _, _, _)
preprocessFilter(x0, counts, smin, j, acc) ==
    IF j >= Len(x0) THEN acc
    ELSE LET e == At(x0, j)
             c == counts[e]
         IN  IF c > 4
             THEN preprocessFilter(x0, counts, smin, j + 1,
                      [acc EXCEPT !.xidx     = Append(@, j + smin),
                                  !.x0       = Append(@, e),
                                  !.nanchors = IF c = 1 + 4 THEN @ + 1 ELSE @])
             ELSE preprocessFilter(x0, counts, smin, j + 1,
                      [acc EXCEPT !.rx[j + smin] = TRUE])

preprocess(r, smin, smax, tmin, tmax, xs, ys) ==
    LET s1 == preprocessX(xs, smin, smax,
                  [ids |-> <<>>, counts |-> [i \in 0..(smax - smin - 1) |-> 0], x0 |-> <<>>])
        s2 == preprocessY(ys, s1.ids, tmin, tmax,
                  [ry |-> r.ry, counts |-> s1.counts, yidx |-> <<>>, y0 |-> <<>>])
        s3 == preprocessFilter(s1.x0, s2.counts, smin, 0,
                  [rx |-> r.rx, xidx |-> <<>>, x0 |-> <<>>, nanchors |-> 0])
    IN  [rx |-> s3.rx, ry |-> s2.ry, x0 |-> s3.x0, y0 |-> s2.y0,
         xidx |-> s3.xidx, yidx |-> s2.yidx, counts |-> s2.counts,
         nanchors |-> s3.nanchors]

----------------------------------------------------------------------------
(* internal/impl/myers.go: the Myers engine.  The generated integer       *)
(* specialization myersInt is the same code with eq fixed to ==.          *)

\* minCostLimit is a lower bound for the TOO_EXPENSIVE heuristic.
minCostLimit == 4096
\* Constants for the GOOD_DIAGONAL heuristic.
goodDiagMinLen == 20
goodDiagCostLimit == 256
goodDiagMagic == 4
\* Minimum input length for enabling the ANCHORING heuristic.
anchoringHeuristicMinInputLen == 5000

\* The thresholds as the source sets them.
SourceLimits ==
    [minCost |-> minCostLimit, minLen |-> goodDiagMinLen,
     diagCost |-> goodDiagCostLimit, magic |-> goodDiagMagic,
     anchorLen |-> anchoringHeuristicMinInputLen]

\* A variant of the costLimit loop that shifts costLimit by two bits a round.
RECURSIVE costLimitLoopPow4(_)
costLimitLoopPow4(i) == IF i = 0 THEN 1 ELSE 4 * costLimitLoopPow4(i \div 4)

\* costLimit := 1; for i := diagonals; i != 0; i >>= 2 { costLimit <<= 1 }
RECURSIVE costLimitLoop(_)
costLimitLoop(i) == IF i = 0 THEN 1 ELSE 2 * costLimitLoop(i \div 4)

identityIdx(n) == [i \in 1..n |-> i - 1]

\* A variant of myers.init that allocates diagonals+3 slots for vf and vb.
myersInitHalf(m0, xs, ys, eqk) ==
    LET b         == findChangeBoundsFunc(xs, ys, eqk)
        diagonals == (b.smax - b.smin) + (b.tmax - b.tmin)
        vlen      == diagonals + 3
        noIdx     == m0.xidx = <<>> \/ m0.yidx = <<>>
        noRes     == m0.rx = <<>> \/ m0.ry = <<>>
    IN  [m |-> [x         |-> xs,
                y         |-> ys,
                eqk       |-> eqk,
                vf        |-> [i \in 0..(vlen - 1) |-> 0],
                vb        |-> [i \in 0..(vlen - 1) |-> 0],
                v0        |-> diagonals + 1,
                costLimit |-> Max2(m0.lim.minCost, costLimitLoop(diagonals)),
                xidx      |-> IF noIdx THEN identityIdx(Len(xs)) ELSE m0.xidx,
                yidx      |-> IF noIdx THEN identityIdx(Len(ys)) ELSE m0.yidx,
                rx        |-> IF noRes THEN Make(xs, ys).rx ELSE m0.rx,
                ry        |-> IF noRes THEN Make(xs, ys).ry ELSE m0.ry,
                lim       |-> m0.lim,
                panic     |-> "",
                calls     |-> <<>>],
         smin |-> b.smin, smax |-> b.smax, tmin |-> b.tmin, tmax |-> b.tmax]

\* myers.init: m0 carries the fields set before the call (xidx, yidx, rx, ry;
\* <<>> stands for nil) and the thresholds.  The field calls is not a field of
\* the Go struct: it collects the calls of split, in the order they return.
myersInit(m0, xs, ys, eqk) ==
    LET b         == findChangeBoundsFunc(xs, ys, eqk)
        diagonals == (b.smax - b.smin) + (b.tmax - b.tmin)
        vlen      == 2 * diagonals + 3
        noIdx     == m0.xidx = <<>> \/ m0.yidx = <<>>
        noRes     == m0.rx = <<>> \/ m0.ry = <<>>
    IN  [m |-> [x         |-> xs,
                y         |-> ys,
                eqk       |-> eqk,
                vf        |-> [i \in 0..(vlen - 1) |-> 0],
                vb        |-> [i \in 0..(vlen - 1) |-> 0],
                v0        |-> diagonals + 1,
                costLimit |-> Max2(m0.lim.minCost, costLimitLoop(diagonals)),
                xidx      |-> IF noIdx THEN identityIdx(Len(xs)) ELSE m0.xidx,
                yidx      |-> IF noIdx THEN identityIdx(Len(ys)) ELSE m0.yidx,
                rx        |-> IF noRes THEN Make(xs, ys).rx ELSE m0.rx,
                ry        |-> IF noRes THEN Make(xs, ys).ry ELSE m0.ry,
                lim       |-> m0.lim,
                panic     |-> "",
                calls     |-> <<>>],
         smin |-> b.smin, smax |-> b.smax, tmin |-> b.tmin, tmax |-> b.tmax]

\* A variant of followDiagF that extends the diagonal without comparing the
\* elements.
RECURSIVE followDiagFNoCompare(_, _, _, _, _)
followDiagFNoCompare(m, s, t, smax, tmax) ==
    IF s < smax /\ t < tmax
    THEN followDiagFNoCompare(m, s + 1, t + 1, smax, tmax)
    ELSE s

\* for s < smax && t < tmax && eq(x[s], y[t]) { s++; t++ }
RECURSIVE followDiagF(_, _, _, _, _)
followDiagF(m, s, t, smax, tmax) ==
    IF s < smax /\ t < tmax /\ Equal(m.eqk, At(m.x, s), At(m.y, t))
    THEN followDiagF(m, s + 1, t + 1, smax, tmax)
    ELSE s

\* A variant of followDiagB that extends the diagonal without comparing the
\* elements.
RECURSIVE followDiagBNoCompare(_, _, _, _, _)
followDiagBNoCompare(m, s, t, smin, tmin) ==
    IF s > smin /\ t > tmin
    THEN followDiagBNoCompare(m, s - 1, t - 1, smin, tmin)
    ELSE s

\* for s > smin && t > tmin && eq(x[s-1], y[t-1]) { s--; t-- }
RECURSIVE followDiagB(_, _, _, _, _)
followDiagB(m, s, t, smin, tmin) ==
    IF s > smin /\ t > tmin /\ Equal(m.eqk, At(m.x, s - 1), At(m.y, t - 1))
    THEN followDiagB(m, s - 1, t - 1, smin, tmin)
    ELSE s

splitResult(s0, s1, t0, t1, opt0, opt1, vf, vb, exit, d) ==
    [hit |-> TRUE, s0 |-> s0, s1 |-> s1, t0 |-> t0, t1 |-> t1,
     opt0 |-> opt0, opt1 |-> opt1, vf |-> vf, vb |-> vb, exit |-> exit, d |-> d,
     longest |-> 0]

noResult(vf, vb, longest) ==
    [hit |-> FALSE, s0 |-> 0, s1 |-> 0, t0 |-> 0, t1 |-> 0,
     opt0 |-> FALSE, opt1 |-> FALSE, vf |-> vf, vb |-> vb, exit |-> "", d |-> 0,
     longest |-> longest]

\* Where the d-path of diagonal k starts (Lemma 2): below the end of the
\* (d-1)-path of diagonal k+1, or right of the one of diagonal k-1.
furthestF(vf, k0) == IF vf[k0 - 1] < vf[k0 + 1] THEN vf[k0 + 1] ELSE vf[k0 - 1] + 1

\* The forward path on diagonal k, ending at s, overlaps a backward path.
overlapF(m, w, st, k, s) ==
    w.odd /\ st.bmin <= k /\ k <= st.bmax /\ s >= st.vb[k + m.v0]

\* The forward k-loop of iteration st.d, from diagonal k on.
RECURSIVE splitForward(_, _, _, _, _, _)
splitForward(m, w, st, k, vf, longest) ==
    IF k > st.fmax THEN noResult(vf, st.vb, longest)
    ELSE LET k0 == k + m.v0
             sa == furthestF(vf, k0)
             ta == sa - k
             s  == followDiagF(m, sa, ta, w.smax, w.tmax)
             t  == ta + (s - sa)
             vf1 == [vf EXCEPT ![k0] = s]
         IN  IF overlapF(m, w, st, k, s)
             THEN splitResult(sa, s, ta, t, TRUE, TRUE, vf1, st.vb, "overlap", st.d)
             ELSE splitForward(m, w, st, k + 2, vf1, Max2(longest, s - sa))

\* The backward k-loop of iteration st.d, from diagonal k on.
RECURSIVE splitBackward(_, _, _, _, _, _)
splitBackward(m, w, st, k, vb, longest) ==
    IF k > st.bmax THEN noResult(st.vf, vb, longest)
    ELSE LET k0 == k + m.v0
             sa == IF vb[k0 - 1] < vb[k0 + 1] THEN vb[k0 - 1] ELSE vb[k0 + 1] - 1
             ta == sa - k
             s  == followDiagB(m, sa, ta, w.smin, w.tmin)
             t  == ta - (sa - s)
             vb1 == [vb EXCEPT ![k0] = s]
         IN  IF ~w.odd /\ st.fmin <= k /\ k <= st.fmax /\ s <= st.vf[m.v0 + k]
             THEN splitResult(s, sa, t, ta, TRUE, TRUE, st.vf, vb1, "overlap", st.d)
             ELSE splitBackward(m, w, st, k + 2, vb1, Max2(longest, sa - s))

noBest == [v |-> 0, s0 |-> 0, s1 |-> 0, t0 |-> 0, t1 |-> 0, opt0 |-> FALSE, opt1 |-> FALSE]

\* GOOD_DIAGONAL, "Check forward paths", from diagonal k on.
RECURSIVE goodDiagonalForward(_, _, _, _, _)
goodDiagonalForward(m, w, st, k, best) ==
    IF k > st.fmax THEN best
    ELSE LET k0 == k + m.v0
             s  == st.vf[k0]
             t  == s - k
             v  == (s - w.smin) + (t - w.tmin) - Max2(w.fmid - st.d, st.d - w.fmid)
         IN  IF s < w.smin \/ w.smax <= s \/ t < w.tmin \/ w.tmax <= t
             THEN goodDiagonalForward(m, w, st, k + 2, best)
             ELSE IF v <= m.lim.magic * st.d \/ v < best.v
             THEN goodDiagonalForward(m, w, st, k + 2, best)
             ELSE LET pk   == IF st.vf[k0 - 1] < st.vf[k0 + 1] THEN k + 1 ELSE k - 1
                      ps   == st.vf[pk + m.v0]
                      pt   == ps - pk
                      diag == Min2(s - ps, t - pt)
                  IN  IF diag < m.lim.minLen
                      THEN goodDiagonalForward(m, w, st, k + 2,
                               [v |-> v, s0 |-> s - diag, s1 |-> s, t0 |-> t - diag,
                                t1 |-> t, opt0 |-> TRUE, opt1 |-> FALSE])
                      ELSE goodDiagonalForward(m, w, st, k + 2, best)

\* GOOD_DIAGONAL, "Check backward paths", from diagonal k on.
RECURSIVE goodDiagonalBackward(_, _, _, _, _)
goodDiagonalBackward(m, w, st, k, best) ==
    IF k > st.bmax THEN best
    ELSE LET k0 == k + m.v0
             s  == st.vb[k0]
             t  == s - k
             v  == (w.smax - s) + (w.tmax - t) - Max2(w.bmid - st.d, st.d - w.bmid)
         IN  IF s < w.smin \/ w.smax <= s \/ t < w.tmin \/ w.tmax <= t
             THEN goodDiagonalBackward(m, w, st, k + 2, best)
             ELSE IF v <= m.lim.magic * st.d \/ v < best.v
             THEN goodDiagonalBackward(m, w, st, k + 2, best)
             ELSE LET pk   == IF st.vb[k0 - 1] < st.vb[k0 + 1] THEN k - 1 ELSE k + 1
                      ps   == st.vb[pk + m.v0]
                      pt   == ps - pk
                      diag == Min2(ps - s, pt - t)
                  IN  IF diag >= m.lim.minLen
                      THEN goodDiagonalBackward(m, w, st, k + 2,
                               [v |-> v, s0 |-> s, s1 |-> s + diag, t0 |-> t,
                                t1 |-> t + diag, opt0 |-> FALSE, opt1 |-> TRUE])
                      ELSE goodDiagonalBackward(m, w, st, k + 2, best)

\* TOO_EXPENSIVE: endpoint of the furthest reaching forward d-path that
\* maximizes x+y, from diagonal k on; acc = [best, k].
RECURSIVE tooExpensiveForward(_, _, _, _, _)
tooExpensiveForward(m, w, st, k, acc) ==
    IF k > st.fmax THEN acc
    ELSE LET s == st.vf[k + m.v0]
             t == s - k
         IN  IF w.smin <= s /\ s < w.smax /\ w.tmin <= t /\ t < w.tmax /\ acc.best < s + t
             THEN tooExpensiveForward(m, w, st, k + 2, [best |-> s + t, k |-> k])
             ELSE tooExpensiveForward(m, w, st, k + 2, acc)

RECURSIVE tooExpensiveBackward(_, _, _, _, _)
tooExpensiveBackward(m, w, st, k, acc) ==
    IF k > st.bmax THEN acc
    ELSE LET s == st.vb[k + m.v0]
             t == s - k
         IN  IF w.smin <= s /\ s < w.smax /\ w.tmin <= t /\ t < w.tmax /\ s + t < acc.best
             THEN tooExpensiveBackward(m, w, st, k + 2, [best |-> s + t, k |-> k])
             ELSE tooExpensiveBackward(m, w, st, k + 2, acc)

tooExpensive(m, w, st) ==
    LET f == tooExpensiveForward(m, w, st, st.fmin, [best |-> MinInt, k |-> MinInt])
        b == tooExpensiveBackward(m, w, st, st.bmin, [best |-> MaxInt, k |-> MaxInt])
    IN  IF f.best # MinInt /\ (w.smax + w.tmax) - b.best < f.best - (w.smin + w.tmin)
        THEN LET k    == f.k
                 k0   == k + m.v0
                 s    == st.vf[k0]
                 t    == s - k
                 pk   == IF st.vf[k0 - 1] < st.vf[k0 + 1] THEN k + 1 ELSE k - 1
                 ps   == st.vf[pk + m.v0]
                 pt   == ps - pk
                 diag == Min2(s - ps, t - pt)
             IN  splitResult(s - diag, s, t - diag, t, TRUE, FALSE,
                             st.vf, st.vb, "too_expensive", st.d)
        ELSE IF b.best # MaxInt
        THEN LET k    == b.k
                 k0   == k + m.v0
                 s    == st.vb[k0]
                 t    == s - k
                 pk   == IF st.vb[k0 - 1] < st.vb[k0 + 1] THEN k - 1 ELSE k + 1
                 ps   == st.vb[pk + m.v0]
                 pt   == ps - pk
                 diag == Min2(ps - s, pt - t)
             IN  splitResult(s, s + diag, t, t + diag, FALSE, TRUE,
                             st.vf, st.vb, "too_expensive", st.d)
        ELSE splitResult(w.smin, w.smin, w.tmin, w.tmin, FALSE, FALSE,
                         st.vf, st.vb, "panic: no best path found", st.d)

\* One iteration of "for d := 1; ; d++" and, unless it returns, the next.  The
\* iteration indexes vf and vb from v0+fmin-1 to v0+fmax+1 and from v0+bmin-1
\* to v0+bmax+1; an index outside the arrays is a run-time panic.
RECURSIVE splitLoop(_, _, _)
splitLoop(m, w, st) ==
    LET fmin == IF st.fmin > w.kmin THEN st.fmin - 1 ELSE st.fmin + 1
        vfa  == IF st.fmin > w.kmin THEN [st.vf EXCEPT ![m.v0 + fmin - 1] = MinInt] ELSE st.vf
        fmax == IF st.fmax < w.kmax THEN st.fmax + 1 ELSE st.fmax - 1
        vfb  == IF st.fmax < w.kmax THEN [vfa EXCEPT ![m.v0 + fmax + 1] = MinInt] ELSE vfa
        stf  == [st EXCEPT !.fmin = fmin, !.fmax = fmax, !.vf = vfb]
        bmin == IF st.bmin > w.kmin THEN st.bmin - 1 ELSE st.bmin + 1
        vba  == IF st.bmin > w.kmin THEN [st.vb EXCEPT ![m.v0 + bmin - 1] = MaxInt] ELSE st.vb
        bmax == IF st.bmax < w.kmax THEN st.bmax + 1 ELSE st.bmax - 1
        vbb  == IF st.bmax < w.kmax THEN [vba EXCEPT ![m.v0 + bmax + 1] = MaxInt] ELSE vba
    IN  IF ~({m.v0 + fmin - 1, m.v0 + fmax + 1, m.v0 + bmin - 1, m.v0 + bmax + 1}
                 \subseteq DOMAIN st.vf)
        THEN splitResult(w.smin, w.smin, w.tmin, w.tmin, FALSE, FALSE, st.vf, st.vb,
                         "panic: index out of range", st.d)
        ELSE
        With([f \in {splitForward(m, w, stf, fmin, vfb, 0)} |->
          IF f.hit THEN f
          ELSE With([b \in {splitBackward(m, w,
                                [stf EXCEPT !.vf = f.vf, !.bmin = bmin, !.bmax = bmax,
                                            !.vb = vbb],
                                bmin, vbb, f.longest)} |->
            IF b.hit THEN b
            ELSE LET st1 == [stf EXCEPT !.vf = f.vf, !.bmin = bmin, !.bmax = bmax,
                                        !.vb = b.vb]
                     nxt == [st1 EXCEPT !.d = @ + 1]
                 IN  IF w.optimal THEN splitLoop(m, w, nxt)
                     ELSE With([best \in
                                 {IF b.longest >= m.lim.minLen /\ st1.d >= m.lim.diagCost
                                  THEN goodDiagonalBackward(m, w, st1, st1.bmin,
                                           goodDiagonalForward(m, w, st1, st1.fmin, noBest))
                                  ELSE noBest} |->
                            IF best.v > 0
                            THEN splitResult(best.s0, best.s1, best.t0, best.t1, best.opt0,
                                             best.opt1, st1.vf, st1.vb, "good_diagonal",
                                             st1.d)
                            ELSE IF st1.d >= m.costLimit THEN tooExpensive(m, w, st1)
                            ELSE splitLoop(m, w, nxt)])])])

\* A variant of myers.split that runs the heuristics whatever optimal is.
splitHeuristicsAlways(m, smin, smax, tmin, tmax, optimal) ==
    LET fmid == smin - tmin
        bmid == smax - tmax
        w == [smin |-> smin, smax |-> smax, tmin |-> tmin, tmax |-> tmax,
              kmin |-> smin - tmax, kmax |-> smax - tmin,
              fmid |-> fmid, bmid |-> bmid,
              odd  |-> ((smax - smin) - (tmax - tmin)) % 2 # 0,
              optimal |-> FALSE]
    IN  IF ~({m.v0 + fmid, m.v0 + bmid} \subseteq DOMAIN m.vf)
        THEN splitResult(smin, smin, tmin, tmin, FALSE, FALSE, m.vf, m.vb,
                         "panic: index out of range", 0)
        ELSE
        splitLoop(m, w,
            [vf |-> [m.vf EXCEPT ![m.v0 + fmid] = smin],
             vb |-> [m.vb EXCEPT ![m.v0 + bmid] = smax],
             fmin |-> fmid, fmax |-> fmid, bmin |-> bmid, bmax |-> bmid, d |-> 1])

\* myers.split
split(m, smin, smax, tmin, tmax, optimal) ==
    LET fmid == smin - tmin
        bmid == smax - tmax
        w == [smin |-> smin, smax |-> smax, tmin |-> tmin, tmax |-> tmax,
              kmin |-> smin - tmax, kmax |-> smax - tmin,
              fmid |-> fmid, bmid |-> bmid,
              odd  |-> ((smax - smin) - (tmax - tmin)) % 2 # 0,
              optimal |-> optimal]
    IN  IF ~({m.v0 + fmid, m.v0 + bmid} \subseteq DOMAIN m.vf)
        THEN splitResult(smin, smin, tmin, tmin, FALSE, FALSE, m.vf, m.vb,
                         "panic: index out of range", 0)
        ELSE
        splitLoop(m, w,
            [vf |-> [m.vf EXCEPT ![m.v0 + fmid] = smin],
             vb |-> [m.vb EXCEPT ![m.v0 + bmid] = smax],
             fmin |-> fmid, fmax |-> fmid, bmin |-> bmid, bmax |-> bmid, d |-> 1])

\* The record of a call of split: its arguments, what it returned, the exit
\* it took, the d it returned at, the v-arrays at that moment and m.costLimit.
splitCall(smin, smax, tmin, tmax, optimal, sp, costLimit) ==
    [smin |-> smin, smax |-> smax, tmin |-> tmin, tmax |-> tmax, optimal |-> optimal,
     s0 |-> sp.s0, s1 |-> sp.s1, t0 |-> sp.t0, t1 |-> sp.t1,
     opt0 |-> sp.opt0, opt1 |-> sp.opt1, exit |-> sp.exit, d |-> sp.d,
     vf |-> sp.vf, vb |-> sp.vb, costLimit |-> costLimit]

\* myers.compare; returns m with the result vectors (and v-arrays) updated.
RECURSIVE compare(_, _, _, _, _, _)
compare(m, smin, smax, tmin, tmax, optimal) ==
    IF m.panic # "" THEN m
    ELSE IF smin = smax THEN [m EXCEPT !.ry = SetMapped(@, m.yidx, tmin, tmax)]
    ELSE IF tmin = tmax THEN [m EXCEPT !.rx = SetMapped(@, m.xidx, smin, smax)]
    ELSE With([sp \in {split(m, smin, smax, tmin, tmax, optimal)} |->
           With([m1 \in {[m EXCEPT !.vf = sp.vf, !.vb = sp.vb,
                                   !.calls = Append(@, splitCall(smin, smax, tmin, tmax,
                                                                 optimal, sp, m.costLimit))]} |->
             IF sp.exit \notin {"overlap", "good_diagonal", "too_expensive"}
             THEN [m1 EXCEPT !.panic = sp.exit]
             ELSE compare(compare(m1, smin, sp.s0, tmin, sp.t0, sp.opt0),
                          sp.s1, smax, sp.t1, tmax, sp.opt1)])])

----------------------------------------------------------------------------
(* internal/impl/api.go: segments (anchor LCS, Szymanski's Algorithm A) *)

\* Go indexes p in [lo, hi) of q whose ID is an anchor, counts[q[p]] = 1+4.
RECURSIVE anchorIndexes(_, _, _, _)
anchorIndexes(q, lo, hi, counts) ==
    IF lo >= hi THEN <<>>
    ELSE IF counts[At(q, lo)] = 1 + 4
         THEN <<lo>> \o anchorIndexes(q, lo + 1, hi, counts)
         ELSE anchorIndexes(q, lo + 1, hi, counts)

\* idx[e] of the map filled by the loop over y: the rank in yi of the anchor
\* whose ID is e, and Go's zero value 0 when e is not a key.
anchorRank(ys, yi, e) ==
    IF \E j \in 1..Len(yi) : At(ys, yi[j]) = e
    THEN (CHOOSE j \in 1..Len(yi) : At(ys, yi[j]) = e) - 1
    ELSE 0

\* sort.Search(n, func(k) bool { return T[k] >= v }): binary search in [lo, hi).
RECURSIVE sortSearch(_, _, _, _)
sortSearch(T, v, lo, hi) ==
    IF lo >= hi THEN lo
    ELSE LET h == (lo + hi) \div 2
         IN  IF ~(T[h] >= v) THEN sortSearch(T, v, h + 1, hi) ELSE sortSearch(T, v, lo, h)

\* A variant of the loop below that gives every anchor the length 1.
szymanskiFlat(J, n, i, T, L) == [j \in 0..(n - 1) |-> 1]

\* for i := range n { k := sort.Search(...); T[k] = J[i]; L[i] = k + 1 }
RECURSIVE szymanski(_, _, _, _, _)
szymanski(J, n, i, T, L) ==
    IF i >= n THEN L
    ELSE LET k == sortSearch(T, At(J, i), 0, n)
         IN  szymanski(J, n, i + 1, [T EXCEPT ![k] = At(J, i)], [L EXCEPT ![i] = k + 1])

RECURSIVE maxOf(_, _, _)
maxOf(L, i, n) == IF i >= n THEN 0 ELSE Max2(L[i], maxOf(L, i + 1, n))

\* for i := n - 1; i >= 0; i-- { if L[i] == k && J[i] < lastj { anchors[k] = ...; k-- } }
RECURSIVE collectAnchors(_, _, _, _, _, _, _, _)
collectAnchors(xi, yi, J, L, lastj, i, k, anchors) ==
    IF i < 0 THEN anchors
    ELSE IF L[i] = k /\ At(J, i) < lastj
         THEN collectAnchors(xi, yi, J, L, lastj, i - 1, k - 1,
                  [anchors EXCEPT ![k] = [s |-> At(xi, i), t |-> At(yi, At(J, i))]])
         ELSE collectAnchors(xi, yi, J, L, lastj, i - 1, k, anchors)

\* Returns the anchors as a function over 0..k+1, sentinels included.
segments(smin, smax, tmin, tmax, nanchors, counts, xs, ys) ==
    LET yi  == anchorIndexes(ys, tmin, tmax, counts)
        xi  == anchorIndexes(xs, smin, smax, counts)
        inv == [i \in 1..Len(xi) |-> anchorRank(ys, yi, At(xs, xi[i]))]
        n   == Len(xi)
        L   == szymanski(inv, n, 0, [i \in 0..(n - 1) |-> n + 1], [i \in 0..(n - 1) |-> 0])
        k   == maxOf(L, 0, n)
        a0  == [i \in 0..(k + 1) |-> IF i = k + 1 THEN [s |-> smax, t |-> tmax]
                                                  ELSE [s |-> 0, t |-> 0]]
        a1  == collectAnchors(xi, yi, inv, L, n, n - 1, k, a0)
    IN  [a1 EXCEPT ![0] = [s |-> smin, t |-> tmin]]

\* for start.s > done.s && start.t > done.t && x0[start.s-1] == y0[start.t-1]
RECURSIVE extendStart(_, _, _, _)
extendStart(x0, y0, p, done) ==
    IF p.s > done.s /\ p.t > done.t /\ At(x0, p.s - 1) = At(y0, p.t - 1)
    THEN extendStart(x0, y0, [s |-> p.s - 1, t |-> p.t - 1], done)
    ELSE p

\* for end.s < smax0 && end.t < tmax0 && x0[end.s] == y0[end.t]
RECURSIVE extendEnd(_, _, _, _, _)
extendEnd(x0, y0, p, smax0, tmax0) ==
    IF p.s < smax0 /\ p.t < tmax0 /\ At(x0, p.s) = At(y0, p.t)
    THEN extendEnd(x0, y0, [s |-> p.s + 1, t |-> p.t + 1], smax0, tmax0)
    ELSE p

----------------------------------------------------------------------------
(* internal/impl/api.go: the drivers *)

\* A myers value before init: only the fields the drivers set.
newMyers(r, xidx, yidx, lim) ==
    [rx |-> r.rx, ry |-> r.ry, xidx |-> xidx, yidx |-> yidx, lim |-> lim]

noWindow == [smin |-> 0, smax |-> 0, tmin |-> 0, tmax |-> 0]

\* What a driver hands back: the result vectors, a panic message ("" if none)
\* and, for inspection, the window it worked on, the anchors and the gaps
\* [done, start) together with the extension end of each processed anchor, and
\* the calls of split.
driverResult(rvx, rvy, panic, win0, anchors, gaps, calls) ==
    [rx |-> rvx, ry |-> rvy, panic |-> panic, win0 |-> win0,
     anchors |-> anchors, gaps |-> gaps, calls |-> calls]

\* The loop "for _, anchor := range segments[1:]" of diffDefault, from
\* segments[i] on.
RECURSIVE diffDefaultLoop(_, _, _, _, _, _, _)
diffDefaultLoop(m, p, win, segs, i, done, gaps) ==
    IF i > LastIndex(segs) \/ m.panic # "" THEN [m |-> m, gaps |-> gaps]
    ELSE LET anchor == segs[i]
         IN  IF anchor.s < done.s
             THEN diffDefaultLoop(m, p, win, segs, i + 1, done, gaps)
             ELSE With([start \in {extendStart(p.x0, p.y0, anchor, done)},
                        end \in {extendEnd(p.x0, p.y0, anchor, win.smax, win.tmax)} |->
                    With([m1 \in {compare(m, done.s, start.s, done.t, start.t, FALSE)},
                          g \in {Append(gaps, [done |-> done, start |-> start,
                                               end |-> end])} |->
                      IF end.s >= win.smax /\ end.t >= win.tmax
                      THEN [m |-> m1, gaps |-> g]
                      ELSE diffDefaultLoop(m1, p, win, segs, i + 1, end, g)])])

\* A variant of diffDefault that anchors from anchoringHeuristicMinInputLen on.
diffDefaultAtLeast(r, p, forceAnchoring, lim) ==
    With([i \in {myersInit(newMyers(r, p.xidx, p.yidx, lim), p.x0, p.y0, "eq")} |->
      LET win == [smin |-> i.smin, smax |-> i.smax, tmin |-> i.tmin, tmax |-> i.tmax]
      IN  IF (p.nanchors > 0
              /\ (i.smax - i.smin) + (i.tmax - i.tmin) >= lim.anchorLen)
             \/ forceAnchoring
          THEN With([segs \in {segments(i.smin, i.smax, i.tmin, i.tmax, p.nanchors,
                                        p.counts, p.x0, p.y0)} |->
                 With([res \in {diffDefaultLoop(i.m, p, win, segs, 1, segs[0], <<>>)} |->
                   driverResult(res.m.rx, res.m.ry, res.m.panic, win, segs, res.gaps,
                                res.m.calls)])])
          ELSE With([m \in {compare(i.m, i.smin, i.smax, i.tmin, i.tmax, FALSE)} |->
                 driverResult(m.rx, m.ry, m.panic, win, <<>>, <<>>, m.calls)])])

diffDefault(r, p, forceAnchoring, lim) ==
    With([i \in {myersInit(newMyers(r, p.xidx, p.yidx, lim), p.x0, p.y0, "eq")} |->
      LET win == [smin |-> i.smin, smax |-> i.smax, tmin |-> i.tmin, tmax |-> i.tmax]
      IN  IF (p.nanchors > 0
              /\ (i.smax - i.smin) + (i.tmax - i.tmin) > lim.anchorLen)
             \/ forceAnchoring
          THEN With([segs \in {segments(i.smin, i.smax, i.tmin, i.tmax, p.nanchors,
                                        p.counts, p.x0, p.y0)} |->
                 With([res \in {diffDefaultLoop(i.m, p, win, segs, 1, segs[0], <<>>)} |->
                   driverResult(res.m.rx, res.m.ry, res.m.panic, win, segs, res.gaps,
                                res.m.calls)])])
          ELSE With([m \in {compare(i.m, i.smin, i.smax, i.tmin, i.tmax, FALSE)} |->
                 driverResult(m.rx, m.ry, m.panic, win, <<>>, <<>>, m.calls)])])

\* A variant of markGap that marks the x side of the gap only.
markGapXOnly(r, p, done, start) ==
    [rx |-> SetMapped(r.rx, p.xidx, done.s, start.s), ry |-> r.ry]

\* diffFast marks everything between two matching regions as changed:
\* rx[xidx[s]] for done.s <= s < start.s, ry[yidx[t]] for done.t <= t < start.t.
markGap(r, p, done, start) ==
    [rx |-> SetMapped(r.rx, p.xidx, done.s, start.s),
     ry |-> SetMapped(r.ry, p.yidx, done.t, start.t)]

\* A variant of the loop of diffFast that does not skip the anchors an earlier
\* extension has passed.
RECURSIVE diffFastLoopNoSkip(_, _, _, _, _, _, _)
diffFastLoopNoSkip(r, p, win, segs, i, done, gaps) ==
    IF i > LastIndex(segs) THEN [r |-> r, gaps |-> gaps]
    ELSE LET anchor == segs[i]
         IN  IF FALSE
             THEN diffFastLoopNoSkip(r, p, win, segs, i + 1, done, gaps)
             ELSE With([start \in {extendStart(p.x0, p.y0, anchor, done)},
                        end \in {extendEnd(p.x0, p.y0, anchor, win.smax, win.tmax)} |->
                    With([r1 \in {markGap(r, p, done, start)},
                          g \in {Append(gaps, [done |-> done, start |-> start,
                                               end |-> end])} |->
                      IF end.s >= win.smax /\ end.t >= win.tmax
                      THEN [r |-> r1, gaps |-> g]
                      ELSE diffFastLoopNoSkip(r1, p, win, segs, i + 1, end, g)])])

\* The loop "for _, anchor := range segments[1:]" of diffFast.
RECURSIVE diffFastLoop(_, _, _, _, _, _, _)
diffFastLoop(r, p, win, segs, i, done, gaps) ==
    IF i > LastIndex(segs) THEN [r |-> r, gaps |-> gaps]
    ELSE LET anchor == segs[i]
         IN  IF anchor.s < done.s
             THEN diffFastLoop(r, p, win, segs, i + 1, done, gaps)
             ELSE With([start \in {extendStart(p.x0, p.y0, anchor, done)},
                        end \in {extendEnd(p.x0, p.y0, anchor, win.smax, win.tmax)} |->
                    With([r1 \in {markGap(r, p, done, start)},
                          g \in {Append(gaps, [done |-> done, start |-> start,
                                               end |-> end])} |->
                      IF end.s >= win.smax /\ end.t >= win.tmax
                      THEN [r |-> r1, gaps |-> g]
                      ELSE diffFastLoop(r1, p, win, segs, i + 1, end, g)])])

diffFast(r, p) ==
    With([win \in {findChangeBounds(p.x0, p.y0)} |->
      With([segs \in {segments(win.smin, win.smax, win.tmin, win.tmax, p.nanchors,
                               p.counts, p.x0, p.y0)} |->
        With([res \in {diffFastLoop(r, p, win, segs, 1, segs[0], <<>>)} |->
          driverResult(res.r.rx, res.r.ry, "", win, segs, res.gaps, <<>>)])])])

\* A variant of diffMinimal that anchors on the unique elements the way
\* diffDefault does once the anchoring heuristic applies.
diffMinimalAnchored(r, p, lim) == diffDefault(r, p, TRUE, lim)

diffMinimal(r, p, lim) ==
    With([i \in {myersInit(newMyers(r, p.xidx, p.yidx, lim), p.x0, p.y0, "eq")} |->
      With([m \in {compare(i.m, i.smin, i.smax, i.tmin, i.tmax, TRUE)} |->
        driverResult(m.rx, m.ry, m.panic,
                     [smin |-> i.smin, smax |-> i.smax, tmin |-> i.tmin, tmax |-> i.tmax],
                     <<>>, <<>>, m.calls)])])

noPre == [x0 |-> <<>>, y0 |-> <<>>, xidx |-> <<>>, yidx |-> <<>>,
          counts |-> <<>>, nanchors |-> 0]

\* impl.Diff.  The result also carries the trace of the call: the change
\* bounds, the outputs of preprocess and what the driver reports.
Diff(xs, ys, c) ==
    With([r0 \in {Make(xs, ys)}, b \in {findChangeBounds(xs, ys)} |->
      With([tr \in {handleTrivialBounds(r0, b.smin, b.smax, b.tmin, b.tmax)} |->
        IF tr.trivial
        THEN [rx |-> tr.rx, ry |-> tr.ry, panic |-> "", bounds |-> b, trivial |-> TRUE,
              pre |-> noPre, win0 |-> noWindow, anchors |-> <<>>, gaps |-> <<>>,
              calls |-> <<>>]
        ELSE With([p \in {preprocess(r0, b.smin, b.smax, b.tmin, b.tmax, xs, ys)} |->
               With([d \in {LET r == [rx |-> p.rx, ry |-> p.ry]
                            IN  CASE c.mode = "minimal" -> diffMinimal(r, p, c.lim)
                                  [] c.mode = "default" ->
                                         diffDefault(r, p, c.force, c.lim)
                                  [] c.mode = "fast"    -> diffFast(r, p)} |->
                 [rx |-> d.rx, ry |-> d.ry, panic |-> d.panic, bounds |-> b,
                  trivial |-> FALSE,
                  pre |-> [x0 |-> p.x0, y0 |-> p.y0, xidx |-> p.xidx, yidx |-> p.yidx,
                           counts |-> p.counts, nanchors |-> p.nanchors],
                  win0 |-> d.win0, anchors |-> d.anchors, gaps |-> d.gaps,
                  calls |-> d.calls]])])])])

\* impl.DiffFunc
DiffFunc(xs, ys, eqk, c) ==
    With([r0 \in {Make(xs, ys)}, b \in {findChangeBoundsFunc(xs, ys, eqk)} |->
      With([tr \in {handleTrivialBounds(r0, b.smin, b.smax, b.tmin, b.tmax)} |->
        IF tr.trivial
        THEN [rx |-> tr.rx, ry |-> tr.ry, panic |-> "", bounds |-> b, trivial |-> TRUE,
              pre |-> noPre, win0 |-> noWindow, anchors |-> <<>>, gaps |-> <<>>,
              calls |-> <<>>]
        ELSE With([i \in {myersInit(newMyers(r0, <<>>, <<>>, c.lim), xs, ys, eqk)} |->
               With([m \in {compare(i.m, i.smin, i.smax, i.tmin, i.tmax,
                                    c.mode = "minimal")} |->
                 [rx |-> m.rx, ry |-> m.ry, panic |-> m.panic, bounds |-> b,
                  trivial |-> FALSE, pre |-> noPre,
                  win0 |-> [smin |-> i.smin, smax |-> i.smax,
                            tmin |-> i.tmin, tmax |-> i.tmax],
                  anchors |-> <<>>, gaps |-> <<>>, calls |-> m.calls]])])])])

----------------------------------------------------------------------------
(* Package diff: conversion of the result vectors to edits and hunks *)

Edit(op, ex, ey) == [op |-> op, x |-> ex, y |-> ey]

\* The zero value of the element type, for the side an edit leaves unset.
Unset == 0

\* A variant of deleteRun that appends one Delete at most.
deleteRunOne(xs, rvx, s, smax, eout) ==
    IF s < smax /\ rvx[s]
    THEN [s |-> s + 1, eout |-> Append(eout, Edit("Delete", At(xs, s), Unset))]
    ELSE [s |-> s, eout |-> eout]

\* for s < smax && rx[s] { append Delete x[s]; s++ }
RECURSIVE deleteRun(_, _, _, _, _)
deleteRun(xs, rvx, s, smax, eout) ==
    IF s < smax /\ rvx[s]
    THEN deleteRun(xs, rvx, s + 1, smax, Append(eout, Edit("Delete", At(xs, s), Unset)))
    ELSE [s |-> s, eout |-> eout]

\* for t < tmax && ry[t] { append Insert y[t]; t++ }
RECURSIVE insertRun(_, _, _, _, _)
insertRun(ys, rvy, t, tmax, eout) ==
    IF t < tmax /\ rvy[t]
    THEN insertRun(ys, rvy, t + 1, tmax, Append(eout, Edit("Insert", Unset, At(ys, t))))
    ELSE [t |-> t, eout |-> eout]

\* for s < smax && t < tmax && !rx[s] && !ry[t] { append Match; s++; t++ }
RECURSIVE matchRun(_, _, _, _, _, _, _, _, _)
matchRun(xs, ys, rvx, rvy, s, t, smax, tmax, eout) ==
    IF s < smax /\ t < tmax /\ ~rvx[s] /\ ~rvy[t]
    THEN matchRun(xs, ys, rvx, rvy, s + 1, t + 1, smax, tmax,
                  Append(eout, Edit("Match", At(xs, s), At(ys, t))))
    ELSE [s |-> s, t |-> t, eout |-> eout]

\* The loop "for s, t := 0, 0; s < n || t < m;" of edits.
RECURSIVE editsLoop(_, _, _, _, _, _, _)
editsLoop(xs, ys, rvx, rvy, s, t, eout) ==
    LET n == LastIndex(rvx)
        m == LastIndex(rvy)
    IN  IF ~(s < n \/ t < m) THEN eout
        ELSE LET d == deleteRun(xs, rvx, s, n, eout)
                 i == insertRun(ys, rvy, t, m, d.eout)
                 e == matchRun(xs, ys, rvx, rvy, d.s, i.t, n, m, i.eout)
             IN  editsLoop(xs, ys, rvx, rvy, e.s, e.t, e.eout)

\* edits of package diff (a nil slice is the empty sequence).
edits(xs, ys, rvx, rvy) == editsLoop(xs, ys, rvx, rvy, 0, 0, <<>>)

----------------------------------------------------------------------------
(* internal/rvecs: the hunk grouper *)

RECURSIVE skipSet(_, _, _)
skipSet(r, i, n) == IF i < n /\ r[i] THEN skipSet(r, i + 1, n) ELSE i

RECURSIVE skipMatches(_, _, _, _, _, _)
skipMatches(rvx, rvy, s, t, n, m) ==
    IF s < n /\ t < m /\ ~rvx[s] /\ ~rvy[t] THEN skipMatches(rvx, rvy, s + 1, t + 1, n, m)
    ELSE s

\* s0 = max(0, s-context), the start of a hunk opened at an edit at s.
hunkStart(s, context) == Max2(0, s - context)

\* A variant of hunkLeading that leaves the leading context out of the count.
hunkLeadingUncounted(s, s0) == 0

\* d = s - s0: the matches of the leading context are edits of the hunk.
hunkLeading(s, s0) == s - s0

\* A variant of hunkDone that closes the hunk once the matches since the last
\* edit exceed context.
hunkDoneAtContext(st, context, n, m) ==
    st.s0 >= 0 /\ (st.run > context \/ (st.s = n /\ st.t = m))

\* A variant of hunkDone that closes the hunk after 2*context matches already.
hunkDoneEarly(st, context, n, m) ==
    st.s0 >= 0 /\ (st.run >= 2 * context \/ (st.s = n /\ st.t = m))

\* The test that closes the open hunk: more than 2*context matches since the
\* last edit, or the end of both inputs.
hunkDone(st, context, n, m) ==
    st.s0 >= 0 /\ (st.run > 2 * context \/ (st.s = n /\ st.t = m))

\* A variant of hunkDelta that keeps every trailing match in the hunk.
hunkDeltaUntrimmed(run, context) == 0

\* delta = min(0, -run+context): the trailing matches beyond the context are
\* cut from the hunk.
hunkDelta(run, context) == Min2(0, -run + context)

\* The loop "for s < n || t < m" of rvecs.Hunks; st holds its local variables
\* and the hunks yielded so far.
RECURSIVE HunksLoop(_, _, _, _)
HunksLoop(rvx, rvy, context, st) ==
    LET n == LastIndex(rvx)
        m == LastIndex(rvy)
    IN  IF ~(st.s < n \/ st.t < m) THEN st.out
        ELSE
        LET st1 ==
              IF rvx[st.s] \/ rvy[st.t]
              THEN LET open == st.s0 < 0
                       s0 == IF open THEN hunkStart(st.s, context) ELSE st.s0
                       t0 == IF open THEN hunkStart(st.t, context) ELSE st.t0
                       d0 == IF open THEN hunkLeading(st.s, s0) ELSE st.d
                       s1 == skipSet(rvx, st.s, n)
                       t1 == skipSet(rvy, st.t, m)
                   IN  [st EXCEPT !.run = 0, !.s0 = s0, !.t0 = t0, !.s = s1, !.t = t1,
                                  !.d = d0 + (s1 - st.s) + (t1 - st.t)]
              ELSE LET s1 == skipMatches(rvx, rvy, st.s, st.t, n, m)
                       k  == s1 - st.s
                   IN  [st EXCEPT !.s = s1, !.t = st.t + k, !.run = @ + k, !.d = @ + k]
        IN  IF hunkDone(st1, context, n, m)
            THEN LET delta == hunkDelta(st1.run, context)
                     h == [S0 |-> st1.s0, S1 |-> st1.s + delta,
                           T0 |-> st1.t0, T1 |-> st1.t + delta, Edits |-> st1.d + delta]
                 IN  HunksLoop(rvx, rvy, context,
                               [st1 EXCEPT !.out = Append(@, h), !.s0 = -1, !.t0 = -1])
            ELSE HunksLoop(rvx, rvy, context, st1)

\* rvecs.Hunks: the hunks the iterator yields, in order.
Hunks(rvx, rvy, context) ==
    HunksLoop(rvx, rvy, context,
              [s |-> 0, t |-> 0, s0 |-> -1, t0 |-> -1, d |-> 0, run |-> 0, out |-> <<>>])

\* The loop "for s, t := hunk.S0, hunk.T0; s < hunk.S1 || t < hunk.T1;" of hunks.
RECURSIVE hunkEdits(_, _, _, _, _, _, _, _)
hunkEdits(xs, ys, rvx, rvy, hunk, s, t, eout) ==
    IF ~(s < hunk.S1 \/ t < hunk.T1) THEN eout
    ELSE LET d == deleteRun(xs, rvx, s, hunk.S1, eout)
             i == insertRun(ys, rvy, t, hunk.T1, d.eout)
             e == matchRun(xs, ys, rvx, rvy, d.s, i.t, hunk.S1, hunk.T1, i.eout)
         IN  hunkEdits(xs, ys, rvx, rvy, hunk, e.s, e.t, e.eout)

\* hunks of package diff.
hunks(xs, ys, rvx, rvy, context) ==
    With([hs \in {Hunks(rvx, rvy, context)} |->
      [i \in 1..Len(hs) |->
          [PosX |-> hs[i].S0, EndX |-> hs[i].S1, PosY |-> hs[i].T0, EndY |-> hs[i].T1,
           Edits |-> hunkEdits(xs, ys, rvx, rvy, hs[i], hs[i].S0, hs[i].T0, <<>>)]]])

----------------------------------------------------------------------------
(* The calls of package diff on slices: impl.Diff or impl.DiffFunc, then  *)
(* the conversion of the result vectors to edits or to hunks.             *)

\* The inputs of the calls: every sequence over Vals up to MaxLen elements
\* and every sequence over two of the values with one element more.
Inputs == SeqsUpTo(Vals, MaxLen) \cup SeqsUpTo({1, 2}, MaxLen + 1)

Modes == {"default", "minimal", "fast"}
EqKinds == {"eq", "mod2"}

noCfg == [entry |-> "none", mode |-> "default", force |-> FALSE, indent |-> FALSE,
          eqk |-> "eq", context |-> 3, lim |-> SourceLimits]

noAux == [panic |-> "", bounds |-> noWindow, trivial |-> TRUE, pre |-> noPre,
          win0 |-> noWindow, anchors |-> <<>>, gaps |-> <<>>]

auxOf(d) == [panic |-> d.panic, bounds |-> d.bounds, trivial |-> d.trivial, pre |-> d.pre,
             win0 |-> d.win0, anchors |-> d.anchors, gaps |-> d.gaps]

Init ==
    /\ x \in Inputs
    /\ y \in Inputs
    /\ cfg = noCfg
    /\ pc = "start"
    /\ rx = <<>>
    /\ ry = <<>>
    /\ aux = noAux
    /\ out = [kind |-> "none"]

\* Edits / Hunks up to the return of impl.Diff.  ForceAnchoringHeuristic is
\* only accepted together with ModeDefault.
CallDiff(mode, force) ==
    /\ pc = "start"
    /\ force => mode = "default"
    /\ \E c \in {[cfg EXCEPT !.entry = "Diff", !.mode = mode, !.force = force]} :
          \E d \in {Diff(x, y, c)} :
             /\ cfg' = c
             /\ rx' = d.rx
             /\ ry' = d.ry
             /\ aux' = auxOf(d)
    /\ pc' = "diffed"
    /\ UNCHANGED <<x, y, out>>

\* EditsFunc / HunksFunc up to the return of impl.DiffFunc.
CallDiffFunc(mode, eqk) ==
    /\ pc = "start"
    /\ \E c \in {[cfg EXCEPT !.entry = "DiffFunc", !.mode = mode, !.eqk = eqk]} :
          \E d \in {DiffFunc(x, y, eqk, c)} :
             /\ cfg' = c
             /\ rx' = d.rx
             /\ ry' = d.ry
             /\ aux' = auxOf(d)
    /\ pc' = "diffed"
    /\ UNCHANGED <<x, y, out>>

\* Edits / EditsFunc return edits(x, y, rx, ry).
ReturnEdits ==
    /\ pc = "diffed"
    /\ aux.panic = ""
    /\ out' = [kind |-> "edits", edits |-> edits(x, y, rx, ry)]
    /\ pc' = "done"
    /\ UNCHANGED <<x, y, cfg, rx, ry, aux>>

\* Hunks / HunksFunc return hunks(x, y, rx, ry, cfg) for Context(context).
ReturnHunks(context) ==
    /\ pc = "diffed"
    /\ aux.panic = ""
    /\ cfg' = [cfg EXCEPT !.context = context]
    /\ out' = [kind |-> "hunks", hunks |-> hunks(x, y, rx, ry, context),
               rhunks |-> Hunks(rx, ry, context)]
    /\ pc' = "done"
    /\ UNCHANGED <<x, y, rx, ry, aux>>

Next ==
    \/ \E mode \in Modes, force \in BOOLEAN : CallDiff(mode, force)
    \/ \E mode \in Modes, eqk \in EqKinds : CallDiffFunc(mode, eqk)
    \/ ReturnEdits
    \/ \E context \in 0..MaxContext : ReturnHunks(context)

Spec == Init /\ [][Next]_vars

----------------------------------------------------------------------------
(* Properties of the edit script (Edits, EditsFunc)                       *)

\* Applying an edit script to xs: a Match copies the element of xs under the
\* cursor, a Delete skips it, an Insert emits the edit's y element.  ok tells
\* whether every Match and Delete found an element of xs under the cursor
\* and the script consumed all of xs.
RECURSIVE applyEdits(_, _, _, _, _)
applyEdits(xs, es, i, s, acc) ==
    IF i > Len(es) THEN [ok |-> s = Len(xs), seq |-> acc]
    ELSE CASE es[i].op = "Insert" -> applyEdits(xs, es, i + 1, s, Append(acc, es[i].y))
           [] es[i].op = "Delete" ->
                IF s < Len(xs) THEN applyEdits(xs, es, i + 1, s + 1, acc)
                ELSE [ok |-> FALSE, seq |-> acc]
           [] es[i].op = "Match" ->
                IF s < Len(xs) THEN applyEdits(xs, es, i + 1, s + 1, Append(acc, At(xs, s)))
                ELSE [ok |-> FALSE, seq |-> acc]

EditsReturned == pc = "done" /\ out.kind = "edits"

\* Every Match edit pairs elements that compare equal under the equality of
\* the call.
MatchesCompareEqual ==
    \A i \in 1..Len(out.edits) :
        out.edits[i].op = "Match" => Equal(cfg.eqk, out.edits[i].x, out.edits[i].y)

\* C1 (as stated): in every mode and for both entry points, applying the
\* returned edits to x, copying the x element on a Match, yields exactly y,
\* and every Match pairs elements that compare equal.
C1_ReconstructionExact ==
    EditsReturned =>
        LET a == applyEdits(x, out.edits, 1, 0, <<>>)
        IN  a.ok /\ a.seq = y /\ MatchesCompareEqual

\* C1 (amended): applying the returned edits to x consumes x and yields a
\* sequence as long as y whose elements compare equal to those of y under the
\* equality of the call; it is exactly y for Edits, whose equality is ==, and
\* for EditsFunc when eq is ==.  Every Match pairs elements that compare equal.
C1_Reconstruction ==
    EditsReturned =>
        LET a == applyEdits(x, out.edits, 1, 0, <<>>)
        IN  /\ a.ok
            /\ Len(a.seq) = Len(y)
            /\ \A i \in 1..Len(y) : Equal(cfg.eqk, a.seq[i], y[i])
            /\ (cfg.eqk = "eq" => a.seq = y)
            /\ MatchesCompareEqual

\* A script of EditsFunc under the coarse equality with a Delete, an Insert
\* and a Match of two different elements.
C1_Witness ==
    /\ EditsReturned
    /\ cfg.entry = "DiffFunc" /\ cfg.eqk = "mod2"
    /\ \E i, j, k \in 1..Len(out.edits) :
          /\ out.edits[i].op = "Match" /\ out.edits[i].x # out.edits[i].y
          /\ out.edits[j].op = "Delete"
          /\ out.edits[k].op = "Insert"

----------------------------------------------------------------------------
(* Properties of the result vectors                                       *)

\* The cursor walk over result vectors: a delete while rvx[s], otherwise an
\* insert while rvy[t], otherwise a match that advances both cursors.  It
\* stops at (n, m); past is set when a cursor went beyond n or m.
RECURSIVE cursorWalk(_, _, _, _, _, _, _)
cursorWalk(rvx, rvy, s, t, nd, ni, nm) ==
    LET n == LastIndex(rvx)
        m == LastIndex(rvy)
    IN  IF s > n \/ t > m \/ (s = n /\ t = m)
        THEN [s |-> s, t |-> t, dels |-> nd, ins |-> ni, matches |-> nm,
              past |-> s > n \/ t > m]
        ELSE IF rvx[s] THEN cursorWalk(rvx, rvy, s + 1, t, nd + 1, ni, nm)
        ELSE IF rvy[t] THEN cursorWalk(rvx, rvy, s, t + 1, nd, ni + 1, nm)
        ELSE cursorWalk(rvx, rvy, s + 1, t + 1, nd, ni, nm + 1)

DiffReturned == pc = "diffed" /\ aux.panic = ""

\* C2: the result vectors have the lengths N+1 and M+1, the cursor walk from
\* (0,0) ends exactly at (N,M) without stepping past either input, it counts
\* popcount(rx[0..N)) deletes and popcount(ry[0..M)) inserts, and its number
\* of matches is N minus the deletes and M minus the inserts.
C2_CursorWalk ==
    DiffReturned =>
        /\ DOMAIN rx = 0..Len(x) /\ DOMAIN ry = 0..Len(y)
        /\ LET w == cursorWalk(rx, ry, 0, 0, 0, 0, 0)
           IN  /\ ~w.past /\ w.s = Len(x) /\ w.t = Len(y)
               /\ w.dels = Popcount(rx, 0, Len(x))
               /\ w.ins = Popcount(ry, 0, Len(y))
               /\ w.matches = Len(x) - w.dels
               /\ w.matches = Len(y) - w.ins

\* A returned result with deletes, inserts and matches, computed by the
\* Myers comparison (the bounds were not trivial).
C2_Witness ==
    /\ DiffReturned /\ ~aux.trivial
    /\ LET w == cursorWalk(rx, ry, 0, 0, 0, 0, 0)
       IN  w.dels > 0 /\ w.ins > 0 /\ w.matches > 0

\* The length of a longest common subsequence of xs[1..i] and ys[1..j] under
\* the equality eqk.
RECURSIVE LcsLen(_, _, _, _, _)
LcsLen(eqk, xs, ys, i, j) ==
    IF i = 0 \/ j = 0 THEN 0
    ELSE IF Equal(eqk, xs[i], ys[j]) THEN 1 + LcsLen(eqk, xs, ys, i - 1, j - 1)
    ELSE Max2(LcsLen(eqk, xs, ys, i - 1, j), LcsLen(eqk, xs, ys, i, j - 1))

\* D* = N + M - 2 * LCS(x, y)
MinEdits == Len(x) + Len(y) - 2 * LcsLen(cfg.eqk, x, y, Len(x), Len(y))

EditCount == Popcount(rx, 0, Len(x)) + Popcount(ry, 0, Len(y))

\* C3: in mode Minimal the number of deletes plus inserts is D* = N + M -
\* 2*LCS(x, y); in the modes Default and Fast it is at least D* and at most
\* N + M.
C3_EditCount ==
    DiffReturned =>
        /\ cfg.mode = "minimal" => EditCount = MinEdits
        /\ MinEdits <= EditCount /\ EditCount <= Len(x) + Len(y)

\* A minimal script found by the Myers comparison under mode Minimal that
\* has edits and keeps a common subsequence.
C3_Witness ==
    /\ DiffReturned /\ ~aux.trivial /\ cfg.mode = "minimal"
    /\ MinEdits > 0 /\ MinEdits < Len(x) + Len(y)
    /\ EditCount = MinEdits

\* C4: when x and y are identical the edits are exactly N Match edits and
\* there are no hunks, in every mode and for every context.
C4_Identity ==
    (pc = "done" /\ x = y) =>
        /\ out.kind = "edits" =>
              /\ Len(out.edits) = Len(x)
              /\ \A i \in 1..Len(x) : out.edits[i] = Edit("Match", x[i], y[i])
        /\ out.kind = "hunks" => out.hunks = <<>> /\ out.rhunks = <<>>

\* Identical non-empty inputs with a repeated element, after Edits in mode
\* Fast.
C4_Witness ==
    /\ pc = "done" /\ x = y /\ Len(x) = MaxLen /\ x[1] = x[2]
    /\ cfg.mode = "fast" /\ out.kind = "edits"

----------------------------------------------------------------------------
(* The hunk grouper on its own: rvecs.Hunks and the conversion of hunks,   *)
(* on every pair of valid result vectors up to MaxRvLen elements a side.   *)

MaxRvLen == 7

\* The result vectors of n and m elements: the sentinel entries are unset and
\* both sides have the same number of unset entries (the matches).
ValidRvecs(n, m) ==
    {v \in [0..n -> BOOLEAN] \X [0..m -> BOOLEAN] :
        /\ ~v[1][n] /\ ~v[2][m]
        /\ n - Popcount(v[1], 0, n) = m - Popcount(v[2], 0, m)}

\* Inputs that have the result vectors rvx, rvy: x numbers its elements, a
\* matched y element is the x element the cursor walk pairs it with, an
\* inserted y element is none of the x elements.
xOf(rvx) == [i \in 1..LastIndex(rvx) |-> i]

RECURSIVE yOf(_, _, _, _, _)
yOf(rvx, rvy, s, t, acc) ==
    IF t >= LastIndex(rvy) THEN acc
    ELSE IF rvy[t] THEN yOf(rvx, rvy, s, t + 1, Append(acc, -(t + 1)))
    ELSE IF rvx[s] THEN yOf(rvx, rvy, s + 1, t, acc)
    ELSE yOf(rvx, rvy, s + 1, t + 1, Append(acc, s + 1))

InitHunks ==
    /\ \E n, m \in 0..MaxRvLen : \E v \in ValidRvecs(n, m) :
          /\ rx = v[1]
          /\ ry = v[2]
          /\ x = xOf(v[1])
          /\ y = yOf(v[1], v[2], 0, 0, <<>>)
    /\ cfg = [noCfg EXCEPT !.entry = "Diff"]
    /\ pc = "diffed"
    /\ aux = noAux
    /\ out = [kind |-> "none"]

NextHunks ==
    \/ ReturnEdits
    \/ \E context \in 0..MaxContext : ReturnHunks(context)

SpecHunks == InitHunks /\ [][NextHunks]_vars

HunksReturned == pc = "done" /\ out.kind = "hunks"

\* The number of Match edits a hunk's edits begin with / end with.
RECURSIVE leadingMatches(_, _)
leadingMatches(es, i) ==
    IF i <= Len(es) /\ es[i].op = "Match" THEN 1 + leadingMatches(es, i + 1) ELSE 0

RECURSIVE trailingMatches(_, _)
trailingMatches(es, i) ==
    IF i >= 1 /\ es[i].op = "Match" THEN 1 + trailingMatches(es, i - 1) ELSE 0

CountOp(es, op) == Cardinality({i \in 1..Len(es) : es[i].op = op})

\* C6 (as stated): consecutive hunks are separated by strictly more than
\* context elements: h_{i+1}.s0 - h_i.s1 > context.
C6_SeparatedByContext ==
    HunksReturned =>
        \A i \in 1..(Len(out.rhunks) - 1) :
            out.rhunks[i + 1].S0 - out.rhunks[i].S1 > cfg.context

\* C6 (amended): consecutive hunks are separated by at least one element on
\* both sides, h_{i+1}.s0 - h_i.s1 >= 1 and h_{i+1}.t0 - h_i.t1 >= 1, for every
\* context >= 0; what is strictly more than 2*context is the number of matches
\* between the last edit of h_i and the first edit of h_{i+1}.
C6_Separated ==
    HunksReturned =>
        \A i \in 1..(Len(out.rhunks) - 1) :
            LET h == out.rhunks[i]
                g == out.rhunks[i + 1]
                trail == trailingMatches(out.hunks[i].Edits, Len(out.hunks[i].Edits))
                lead  == leadingMatches(out.hunks[i + 1].Edits, 1)
            IN  /\ g.S0 - h.S1 >= 1
                /\ g.T0 - h.T1 >= 1
                /\ g.S0 - h.S1 = g.T0 - h.T1
                /\ trail + (g.S0 - h.S1) + lead > 2 * cfg.context

\* Two hunks under a context of at least 1 that a single element separates.
C6_Witness ==
    /\ HunksReturned /\ cfg.context >= 1 /\ Len(out.rhunks) >= 2
    /\ out.rhunks[2].S0 - out.rhunks[1].S1 = 1

\* C7: every hunk begins with at most context Match edits before its first
\* Delete or Insert and ends with at most context Match edits after its last;
\* it has fewer leading ones only when it starts at the beginning of the
\* inputs and fewer trailing ones only when it ends at (N, M).
C7_ContextBounded ==
    HunksReturned =>
        \A i \in 1..Len(out.hunks) :
            LET h == out.hunks[i]
                lead  == leadingMatches(h.Edits, 1)
                trail == trailingMatches(h.Edits, Len(h.Edits))
            IN  /\ lead < Len(h.Edits)
                /\ lead <= cfg.context /\ trail <= cfg.context
                /\ lead < cfg.context => (h.PosX = 0 /\ h.PosY = 0)
                /\ trail < cfg.context => (h.EndX = Len(x) /\ h.EndY = Len(y))

\* A first hunk with a shortened leading context and a full trailing one,
\* followed by a hunk with a full leading and a shortened trailing context.
C7_Witness ==
    /\ HunksReturned /\ cfg.context >= 1 /\ Len(out.hunks) = 2
    /\ leadingMatches(out.hunks[1].Edits, 1) < cfg.context
    /\ trailingMatches(out.hunks[1].Edits, Len(out.hunks[1].Edits)) = cfg.context
    /\ leadingMatches(out.hunks[2].Edits, 1) = cfg.context
    /\ trailingMatches(out.hunks[2].Edits, Len(out.hunks[2].Edits)) < cfg.context

\* C8: for every hunk, s1 - s0 is the number of its Match and Delete edits,
\* t1 - t0 the number of its Match and Insert edits, and the Edits count the
\* grouper reports is the number of edits the cursor walk yields in the
\* hunk's rectangle.
C8_HunkSizes ==
    HunksReturned =>
        /\ Len(out.hunks) = Len(out.rhunks)
        /\ \A i \in 1..Len(out.hunks) :
              LET h == out.hunks[i]
                  r == out.rhunks[i]
              IN  /\ h.PosX = r.S0 /\ h.EndX = r.S1 /\ h.PosY = r.T0 /\ h.EndY = r.T1
                  /\ r.S1 - r.S0 = CountOp(h.Edits, "Match") + CountOp(h.Edits, "Delete")
                  /\ r.T1 - r.T0 = CountOp(h.Edits, "Match") + CountOp(h.Edits, "Insert")
                  /\ r.Edits = Len(h.Edits)

\* A hunk under a positive context with matches in its context and between
\* its deletes and inserts.
C8_Witness ==
    /\ HunksReturned /\ cfg.context >= 1
    /\ \E i \in 1..Len(out.hunks) :
          LET h == out.hunks[i]
          IN  /\ CountOp(h.Edits, "Delete") > 0 /\ CountOp(h.Edits, "Insert") > 0
              /\ leadingMatches(h.Edits, 1) = cfg.context
              /\ CountOp(h.Edits, "Match") > 2 * cfg.context

----------------------------------------------------------------------------
(* Mode Fast                                                              *)

FastReturned ==
    DiffReturned /\ cfg.entry = "Diff" /\ cfg.mode = "fast" /\ ~aux.trivial

\* The matching region diffFast built around the anchor it processed in step
\* k, [start, end), holds an anchor of the anchor LCS (not one of the two
\* sentinels) on its diagonal and pairs equal elements only.
AnchorLinked(k) ==
    LET g == aux.gaps[k]
    IN  /\ \E a \in 1..(LastIndex(aux.anchors) - 1) :
              /\ g.start.s <= aux.anchors[a].s /\ aux.anchors[a].s < g.end.s
              /\ aux.anchors[a].t - aux.anchors[a].s = g.start.t - g.start.s
        /\ g.end.t - g.start.t = g.end.s - g.start.s
        /\ \A i \in g.start.s..(g.end.s - 1) :
              At(aux.pre.x0, i) = At(aux.pre.y0, i + (g.start.t - g.start.s))

\* Position i of x0 / j of y0 lies in a matching region linked to an anchor.
CoveredX(i) ==
    \E k \in 1..Len(aux.gaps) :
        AnchorLinked(k) /\ aux.gaps[k].start.s <= i /\ i < aux.gaps[k].end.s

CoveredY(j) ==
    \E k \in 1..Len(aux.gaps) :
        AnchorLinked(k) /\ aux.gaps[k].start.t <= j /\ j < aux.gaps[k].end.t

\* The positions of x0 / y0 that stand for position s of x / t of y.
X0Of(s) == {i \in 0..(Len(aux.pre.xidx) - 1) : At(aux.pre.xidx, i) = s}
Y0Of(t) == {j \in 0..(Len(aux.pre.yidx) - 1) : At(aux.pre.yidx, j) = t}

\* Position i of x0 / j of y0 lies on a diagonal run of equal pairs that
\* holds an anchor (an element that occurs once in x0 and once in y0), be the
\* anchor inside the window diffFast works on or not.
OnAnchorDiagonal(i, j) ==
    /\ i \in 0..(Len(aux.pre.x0) - 1) /\ j \in 0..(Len(aux.pre.y0) - 1)
    /\ \E a \in 0..(Len(aux.pre.x0) - 1) :
          /\ aux.pre.counts[At(aux.pre.x0, a)] = 1 + 4
          /\ a + (j - i) \in 0..(Len(aux.pre.y0) - 1)
          /\ \A u \in Min2(i, a)..Max2(i, a) :
                At(aux.pre.x0, u) = At(aux.pre.y0, u + (j - i))

\* C9 (as stated): under Fast, every position of the change window of Diff,
\* [smin, smax) x [tmin, tmax), that no matching region linked to an anchor
\* covers is marked Delete (x side) or Insert (y side).
C9_FastWholeWindow ==
    FastReturned =>
        /\ \A s \in aux.bounds.smin..(aux.bounds.smax - 1) :
              ~rx[s] => \E i \in X0Of(s) :
                            \E j \in 0..(Len(aux.pre.y0) - 1) : OnAnchorDiagonal(i, j)
        /\ \A t \in aux.bounds.tmin..(aux.bounds.tmax - 1) :
              ~ry[t] => \E j \in Y0Of(t) :
                            \E i \in 0..(Len(aux.pre.x0) - 1) : OnAnchorDiagonal(i, j)

\* C9 (amended): under Fast, a position of the change window of Diff is
\* marked Delete or Insert when preprocess drops it (its element is missing
\* on the other side) and when it lies in the window diffFast is left with
\* after stripping the common prefix and suffix of the reduced sequences x0,
\* y0 and no anchor-linked matching region covers it.  The positions in that
\* common prefix and suffix of x0, y0 are matches without an anchor.
C9_FastPatience ==
    FastReturned =>
        /\ \A s \in aux.bounds.smin..(aux.bounds.smax - 1) :
              /\ X0Of(s) = {} => rx[s]
              /\ \A i \in X0Of(s) :
                    IF aux.win0.smin <= i /\ i < aux.win0.smax
                    THEN ~CoveredX(i) => rx[s]
                    ELSE ~rx[s]
        /\ \A t \in aux.bounds.tmin..(aux.bounds.tmax - 1) :
              /\ Y0Of(t) = {} => ry[t]
              /\ \A j \in Y0Of(t) :
                    IF aux.win0.tmin <= j /\ j < aux.win0.tmax
                    THEN ~CoveredY(j) => ry[t]
                    ELSE ~ry[t]

\* A Fast result with a matching region of two elements around an anchor
\* and, in the window diffFast works on, a position of x and one of y that no
\* region covers.
C9_Witness ==
    /\ FastReturned
    /\ \E k \in 1..Len(aux.gaps) :
          AnchorLinked(k) /\ aux.gaps[k].end.s - aux.gaps[k].start.s >= 2
    /\ \E i \in aux.win0.smin..(aux.win0.smax - 1) : ~CoveredX(i)
    /\ \E j \in aux.win0.tmin..(aux.win0.tmax - 1) : ~CoveredY(j)

----------------------------------------------------------------------------
(* internal/indentheuristic: the indentation heuristic.  A line is the     *)
(* sequence of its characters, the newline included.                       *)

\* Never move a group more than this many lines.
maxSliding == 100
\* Indents are clamped to maxIndent.
maxIndent == 200
\* Don't consider more than this number of consecutive blank lines.
maxBlanks == 20

startOfFilePenalty == 1
endOfFilePenalty == 21
totalBlankWeight == -30
postBlankWeight == 6
relativeIndentPenalty == -4
relativeIndentWithBlankPenalty == 10
relativeOutdentPenalty == 24
relativeOutdentWithBlankPenalty == 17
relativeDentPenalty == 23
relativeDentWithBlankPenalty == 17
indentWeight == 60

\* getIndent, from character i of the line on, with the indent so far.  (The
\* vertical tab the code also skips cannot be written in a string here.)
RECURSIVE getIndentFrom(_, _, _)
getIndentFrom(line, i, indent) ==
    IF i > Len(line) THEN -1
    ELSE LET c == line[i]
         IN  IF c \in {"\n", "\r"}
             THEN IF indent >= maxIndent THEN maxIndent
                  ELSE getIndentFrom(line, i + 1, indent)
             ELSE IF c \in {" ", "\t"}
             THEN LET ind == IF c = " " THEN indent + 1 ELSE indent + (8 - (indent % 8))
                  IN  IF ind >= maxIndent THEN maxIndent
                      ELSE getIndentFrom(line, i + 1, ind)
             ELSE indent

getIndent(line) == getIndentFrom(line, 1, 0)

\* The loop "for i := shift - 1; i >= 0; i--" of measureShift.
RECURSIVE measurePre(_, _, _)
measurePre(lines, i, preBlank) ==
    IF i < 0 THEN [preIndent |-> -1, preBlank |-> preBlank]
    ELSE LET ind == getIndent(At(lines, i))
         IN  IF ind # -1 THEN [preIndent |-> ind, preBlank |-> preBlank]
             ELSE IF preBlank + 1 = maxBlanks
                  THEN [preIndent |-> 0, preBlank |-> preBlank + 1]
                  ELSE measurePre(lines, i - 1, preBlank + 1)

\* The loop "for i := shift + 1; i < len(lines); i++" of measureShift.
RECURSIVE measurePost(_, _, _)
measurePost(lines, i, postBlank) ==
    IF i >= Len(lines) THEN [postIndent |-> -1, postBlank |-> postBlank]
    ELSE LET ind == getIndent(At(lines, i))
         IN  IF ind # -1 THEN [postIndent |-> ind, postBlank |-> postBlank]
             ELSE IF postBlank + 1 = maxBlanks
                  THEN [postIndent |-> 0, postBlank |-> postBlank + 1]
                  ELSE measurePost(lines, i + 1, postBlank + 1)

measureShift(lines, shift) ==
    LET pre  == measurePre(lines, shift - 1, 0)
        post == measurePost(lines, shift + 1, 0)
    IN  [endOfFile  |-> shift >= Len(lines),
         indent     |-> IF shift >= Len(lines) THEN -1 ELSE getIndent(At(lines, shift)),
         preBlank   |-> pre.preBlank,
         preIndent  |-> pre.preIndent,
         postBlank  |-> post.postBlank,
         postIndent |-> post.postIndent]

\* shiftScore.add: the score s with the measure m added.
shiftScoreAdd(s, m) ==
    LET p1 == s.penalty
              + (IF m.preIndent = 1 /\ m.preBlank = 0 THEN startOfFilePenalty ELSE 0)
              + (IF m.endOfFile THEN endOfFilePenalty ELSE 0)
        postBlank  == IF m.indent = -1 THEN 1 + m.postBlank ELSE 0
        totalBlank == m.preBlank + postBlank
        p2 == p1 + totalBlankWeight * totalBlank + postBlankWeight * postBlank
        indent == IF m.indent = -1 THEN m.postIndent ELSE m.indent
        p3 == IF indent = -1 \/ m.preIndent = -1 THEN p2
              ELSE IF indent > m.preIndent
                   THEN IF totalBlank # 0 THEN p2 + relativeIndentWithBlankPenalty
                        ELSE relativeIndentPenalty
              ELSE IF indent = m.preIndent THEN p2
              ELSE IF m.postIndent # -1 /\ m.postIndent > indent
                   THEN IF totalBlank # 0 THEN p2 + relativeOutdentWithBlankPenalty
                        ELSE p2 + relativeOutdentPenalty
              ELSE IF totalBlank # 0 THEN p2 + relativeDentWithBlankPenalty
                   ELSE p2 + relativeDentPenalty
    IN  [effectiveIndent |-> s.effectiveIndent + indent, penalty |-> p3]

\* cmp.Compare on integers.
Compare(a, b) == IF a < b THEN -1 ELSE IF a > b THEN 1 ELSE 0

\* shiftScore.cmp
shiftScoreCmp(s, t) ==
    indentWeight * Compare(s.effectiveIndent, t.effectiveIndent) + s.penalty - t.penalty

\* A scanner is its current group [start, end); its lines and its vector
\* are passed along.
newScanner == [start |-> -1, end |-> -1]

groupLen(sc) == sc.end - sc.start

\* for s.start > 0 && s.r[s.start-1] { s.start-- }
RECURSIVE skipSetUp(_, _)
skipSetUp(r, i) == IF i > 0 /\ r[i - 1] THEN skipSetUp(r, i - 1) ELSE i

nextGroup(sc, r) ==
    IF sc.end = LastIndex(r) THEN [ok |-> FALSE, sc |-> sc]
    ELSE [ok |-> TRUE,
          sc |-> [start |-> sc.end + 1, end |-> skipSet(r, sc.end + 1, LastIndex(r))]]

\* A variant of prevGroup that already stops at the group that starts at 1.
prevGroupStuck(sc, r) ==
    IF sc.start <= 1 THEN [ok |-> FALSE, sc |-> sc]
    ELSE [ok |-> TRUE,
          sc |-> [start |-> skipSetUp(r, sc.start - 1), end |-> sc.start - 1]]

prevGroup(sc, r) ==
    IF sc.start = 0 THEN [ok |-> FALSE, sc |-> sc]
    ELSE [ok |-> TRUE,
          sc |-> [start |-> skipSetUp(r, sc.start - 1), end |-> sc.start - 1]]

\* A variant of slideGroupDown that slides without comparing the lines.
slideGroupDownUnchecked(sc, lines, r) ==
    IF sc.end < LastIndex(r)
    THEN LET r1 == [r EXCEPT ![sc.start] = FALSE, ![sc.end] = TRUE]
         IN  [ok |-> TRUE, r |-> r1,
              sc |-> [start |-> sc.start + 1,
                      end   |-> skipSet(r1, sc.end + 1, LastIndex(r1))]]
    ELSE [ok |-> FALSE, r |-> r, sc |-> sc]

slideGroupDown(sc, lines, r) ==
    IF sc.end < LastIndex(r) /\ At(lines, sc.start) = At(lines, sc.end)
    THEN LET r1 == [r EXCEPT ![sc.start] = FALSE, ![sc.end] = TRUE]
         IN  [ok |-> TRUE, r |-> r1,
              sc |-> [start |-> sc.start + 1,
                      end   |-> skipSet(r1, sc.end + 1, LastIndex(r1))]]
    ELSE [ok |-> FALSE, r |-> r, sc |-> sc]

slideGroupUp(sc, lines, r) ==
    IF sc.start > 0 /\ At(lines, sc.start - 1) = At(lines, sc.end - 1)
    THEN LET r1 == [r EXCEPT ![sc.start - 1] = TRUE, ![sc.end - 1] = FALSE]
         IN  [ok |-> TRUE, r |-> r1,
              sc |-> [start |-> skipSetUp(r1, sc.start - 1), end |-> sc.end - 1]]
    ELSE [ok |-> FALSE, r |-> r, sc |-> sc]

\* The state of apply0: the scanners s and so, the vector r that s changes,
\* and the message of a panic ("" while there is none).  The other fields are
\* not variables of the source: steps collects r after every slide, ups and
\* downs count the slides, moved collects for every group the scanner's
\* position before and after its slides with their numbers, scored the
\* scores, and sliding is the value maxSliding has in the run.
\* One slide up of s with the step back of so that follows it.
slideUpStep(lines, ro, st, msg) ==
    LET u == slideGroupUp(st.s, lines, st.r)
    IN  IF ~u.ok THEN [ok |-> FALSE, st |-> IF msg = "" THEN st ELSE [st EXCEPT !.panic = msg]]
        ELSE LET p == prevGroup(st.so, ro)
             IN  [ok |-> TRUE,
                  st |-> [st EXCEPT !.s = u.sc, !.r = u.r, !.so = p.sc,
                                    !.steps = Append(@, u.r), !.ups = @ + 1,
                                    !.panic = IF p.ok THEN "" ELSE "scanner sync broken"]]

\* for s.slideGroupUp() { if !so.prevGroup() { panic } }
RECURSIVE slideUpAll(_, _, _)
slideUpAll(lines, ro, st) ==
    LET u == slideUpStep(lines, ro, st, "")
    IN  IF ~u.ok \/ u.st.panic # "" THEN u.st ELSE slideUpAll(lines, ro, u.st)

\* for s.slideGroupDown() { if !so.nextGroup() { panic }; if so.groupLen() > 0
\* { matchingEnd = s.end } }
RECURSIVE slideDownAll(_, _, _, _)
slideDownAll(lines, ro, st, matchingEnd) ==
    LET d == slideGroupDown(st.s, lines, st.r)
    IN  IF ~d.ok THEN [st |-> st, matchingEnd |-> matchingEnd]
        ELSE LET n   == nextGroup(st.so, ro)
                 st1 == [st EXCEPT !.s = d.sc, !.r = d.r, !.so = n.sc,
                                   !.steps = Append(@, d.r), !.downs = @ + 1,
                                   !.panic = IF n.ok THEN "" ELSE "scanner sync broken"]
             IN  IF ~n.ok THEN [st |-> st1, matchingEnd |-> matchingEnd]
                 ELSE slideDownAll(lines, ro, st1,
                                   IF groupLen(n.sc) > 0 THEN d.sc.end ELSE matchingEnd)

\* for grpLen != s.groupLen() { ... }
RECURSIVE slideLoop(_, _, _, _, _, _)
slideLoop(lines, ro, st, grpLen, minEnd, matchingEnd) ==
    IF grpLen = groupLen(st.s) \/ st.panic # ""
    THEN [st |-> st, grpLen |-> grpLen, minEnd |-> minEnd, matchingEnd |-> matchingEnd]
    ELSE With([up \in {slideUpAll(lines, ro, st)} |->
           With([down \in {LET me == IF groupLen(up.so) > 0 THEN up.s.end ELSE -1
                           IN  IF up.panic # "" THEN [st |-> up, matchingEnd |-> me]
                               ELSE slideDownAll(lines, ro, up, me)} |->
             slideLoop(lines, ro, down.st, groupLen(st.s), up.s.end,
                       down.matchingEnd)])])

\* for so.groupLen() == 0 { if !s.slideGroupUp() { panic }; if !so.prevGroup()
\* { panic } }
RECURSIVE alignWithMatch(_, _, _)
alignWithMatch(lines, ro, st) ==
    IF groupLen(st.so) # 0 \/ st.panic # "" THEN st
    ELSE alignWithMatch(lines, ro, slideUpStep(lines, ro, st, "match disappeared").st)

\* The loop over the shifts of the group's end, from shift on.  scored is not
\* a variable of the source: it collects the score of every shift the loop
\* looks at.
RECURSIVE bestShiftFrom(_, _, _, _, _, _, _)
bestShiftFrom(lines, grpLen, shift, sEnd, bestShift, bestScore, scored) ==
    IF shift > sEnd THEN [shift |-> bestShift, scored |-> scored]
    ELSE LET score == shiftScoreAdd(
                          shiftScoreAdd([effectiveIndent |-> 0, penalty |-> 0],
                                        measureShift(lines, shift)),
                          measureShift(lines, shift - grpLen))
             sc    == Append(scored, [shift |-> shift, grpLen |-> grpLen, score |-> score])
         IN  IF bestShift = -1 \/ shiftScoreCmp(score, bestScore) <= 0
             THEN bestShiftFrom(lines, grpLen, shift + 1, sEnd, shift, score, sc)
             ELSE bestShiftFrom(lines, grpLen, shift + 1, sEnd, bestShift, bestScore, sc)

\* for s.end > bestShift { if !s.slideGroupUp() { panic }; if !so.prevGroup()
\* { panic } }
RECURSIVE slideToShift(_, _, _, _)
slideToShift(lines, ro, st, bestShift) ==
    IF ~(st.s.end > bestShift) \/ st.panic # "" THEN st
    ELSE slideToShift(lines, ro, slideUpStep(lines, ro, st, "best shift not found").st,
                      bestShift)

\* One group of apply0 after the scanners have moved to it: slide it as far
\* as it goes, then put it where the switch says.
applyGroup(lines, ro, st) ==
    With([e \in {
      With([l \in {slideLoop(lines, ro, st, 0, st.s.end, -1)} |->
        IF l.st.panic # "" THEN l.st
        ELSE IF l.minEnd = l.st.s.end THEN l.st
        ELSE IF l.matchingEnd # -1 THEN alignWithMatch(lines, ro, l.st)
        ELSE With([b \in {bestShiftFrom(lines, l.grpLen,
                               Max2(l.minEnd, Max2(l.st.s.end - l.grpLen - 1,
                                                   l.st.s.end - st.sliding)),
                               l.st.s.end, -1, [effectiveIndent |-> 0, penalty |-> 0],
                               <<>>)} |->
               slideToShift(lines, ro, [l.st EXCEPT !.scored = @ \o b.scored],
                            b.shift)])])} |->
      [e EXCEPT !.moved = Append(@, [from |-> st.s, to |-> e.s,
                                     ups |-> e.ups - st.ups,
                                     downs |-> e.downs - st.downs])]])

\* The loop "for s.nextGroup()" of apply0 and the check after it.
RECURSIVE apply0Loop(_, _, _)
apply0Loop(lines, ro, st) ==
    IF st.panic # "" THEN st
    ELSE LET n == nextGroup(st.s, st.r)
         IN  IF ~n.ok
             THEN IF nextGroup(st.so, ro).ok
                  THEN [st EXCEPT !.panic = "scanner sync broken"]
                  ELSE st
             ELSE LET no == nextGroup(st.so, ro)
                      st1 == [st EXCEPT !.s = n.sc, !.so = no.sc]
                  IN  IF ~no.ok THEN [st EXCEPT !.panic = "scanner sync broken"]
                      ELSE IF groupLen(n.sc) = 0 THEN apply0Loop(lines, ro, st1)
                      ELSE apply0Loop(lines, ro, applyGroup(lines, ro, st1))

\* apply0 applies the heuristic to r; ro is only read.  sliding is the value
\* of maxSliding.
apply0(lines, lineso, r, ro, sliding) ==
    With([st \in {apply0Loop(lines, ro, [s |-> newScanner, so |-> newScanner,
                                         r |-> r, panic |-> "", steps |-> <<>>,
                                         scored |-> <<>>, ups |-> 0, downs |-> 0,
                                         moved |-> <<>>, sliding |-> sliding])} |->
      [r |-> st.r, panic |-> st.panic, steps |-> st.steps, scored |-> st.scored,
       moved |-> st.moved]])

\* indentheuristic.Apply: apply0 for the deletions, then for the insertions.
Apply(xs, ys, rvx, rvy, sliding) ==
    With([a \in {apply0(xs, ys, rvx, rvy, sliding)} |->
      With([b \in {IF a.panic # ""
                   THEN [r |-> rvy, panic |-> a.panic, steps |-> <<>>, scored |-> <<>>,
                         moved |-> <<>>]
                   ELSE apply0(ys, xs, rvy, a.r, sliding)} |->
        [rx |-> a.r, ry |-> b.r, panic |-> b.panic,
         stepsX |-> a.steps, stepsY |-> b.steps,
         scoredX |-> a.scored, scoredY |-> b.scored,
         movedX |-> a.moved, movedY |-> b.moved]])])

----------------------------------------------------------------------------
(* The indentation heuristic on its own: Apply, and Apply again, on every   *)
(* valid edit script between two sequences of up to MaxLines lines.         *)

MaxLines == 3

\* maxSliding scaled to the sequences of up to MaxLines lines.
ScaledSliding == 1

\* The lines: one that is not indented, one indented by a space, a blank one.
IndentLines == {<<"a", "\n">>, <<" ", "b", "\n">>, <<"\n">>}

\* The cursor walk pairs equal elements only.
RECURSIVE walkPairsEqual(_, _, _, _, _, _)
walkPairsEqual(xs, ys, rvx, rvy, s, t) ==
    IF s >= Len(xs) /\ t >= Len(ys) THEN TRUE
    ELSE IF rvx[s] THEN walkPairsEqual(xs, ys, rvx, rvy, s + 1, t)
    ELSE IF rvy[t] THEN walkPairsEqual(xs, ys, rvx, rvy, s, t + 1)
    ELSE s < Len(xs) /\ t < Len(ys) /\ At(xs, s) = At(ys, t)
         /\ walkPairsEqual(xs, ys, rvx, rvy, s + 1, t + 1)

\* The valid edit scripts between xs and ys.
EditScripts(xs, ys) ==
    {v \in ValidRvecs(Len(xs), Len(ys)) : walkPairsEqual(xs, ys, v[1], v[2], 0, 0)}

InitIndent ==
    /\ x \in SeqsUpTo(IndentLines, MaxLines)
    /\ y \in SeqsUpTo(IndentLines, MaxLines)
    /\ \E v \in EditScripts(x, y) : rx = v[1] /\ ry = v[2]
    /\ cfg = [noCfg EXCEPT !.entry = "Apply"]
    /\ pc = "script"
    /\ \E sliding \in {maxSliding, ScaledSliding} :
          aux = [panic |-> "", rx0 |-> <<>>, ry0 |-> <<>>, stepsX |-> <<>>,
                 stepsY |-> <<>>, scoredX |-> <<>>, scoredY |-> <<>>,
                 movedX |-> <<>>, movedY |-> <<>>, sliding |-> sliding]
    /\ out = [kind |-> "none"]

\* A call of indentheuristic.Apply on the vectors; aux keeps the vectors the
\* call started from, the vectors after every slide of the two passes, the
\* scores the passes computed and the slides of every group; aux.sliding is
\* the value of maxSliding, the source's or the scaled one.
CallApply ==
    /\ pc \in {"script", "applied"}
    /\ aux.panic = ""
    /\ \E a \in {Apply(x, y, rx, ry, aux.sliding)} :
          /\ rx' = a.rx
          /\ ry' = a.ry
          /\ aux' = [panic |-> a.panic, rx0 |-> rx, ry0 |-> ry,
                     stepsX |-> a.stepsX, stepsY |-> a.stepsY,
                     scoredX |-> a.scoredX, scoredY |-> a.scoredY,
                     movedX |-> a.movedX, movedY |-> a.movedY, sliding |-> aux.sliding]
    /\ pc' = IF pc = "script" THEN "applied" ELSE "reapplied"
    /\ UNCHANGED <<x, y, cfg, out>>

NextIndent == CallApply

SpecIndent == InitIndent /\ [][NextIndent]_vars

\* C10: a second Apply on the vectors a first Apply produced leaves rx and ry
\* unchanged.
C10_Idempotent ==
    (pc = "reapplied" /\ aux.panic = "") => (rx = aux.rx0 /\ ry = aux.ry0)

----------------------------------------------------------------------------
(* textdiff.Unified.  A text is the sequence of its characters.            *)

\* byteview.SplitLines, from character i on; cur is the line being read.
RECURSIVE splitLinesFrom(_, _, _, _)
splitLinesFrom(v, i, cur, acc) ==
    IF i > Len(v)
    THEN IF cur = <<>> THEN [lines |-> acc, missingNewline |-> -1]
         ELSE [lines |-> Append(acc, cur), missingNewline |-> Len(acc)]
    ELSE IF v[i] = "\n" THEN splitLinesFrom(v, i + 1, <<>>, Append(acc, Append(cur, v[i])))
    ELSE splitLinesFrom(v, i + 1, Append(cur, v[i]), acc)

\* The lines of v, newline included, and the index of the last line if it
\* lacks the newline, -1 otherwise.
SplitLines(v) == splitLinesFrom(v, 1, <<>>, <<>>)

Digits == <<"0", "1", "2", "3", "4", "5", "6", "7", "8", "9">>

\* The verb %d of fmt.Fprintf for v >= 0.
RECURSIVE FormatInt(_)
FormatInt(v) ==
    IF v < 10 THEN <<Digits[v + 1]>> ELSE Append(FormatInt(v \div 10), Digits[(v % 10) + 1])

prefixMatch == " "
prefixDelete == "-"
prefixInsert == "+"

\* "\n\\ No newline at end of file\n"
missingNewline ==
    <<"\n", "\\", " ", "N", "o", " ", "n", "e", "w", "l", "i", "n", "e", " ", "a", "t",
      " ", "e", "n", "d", " ", "o", "f", " ", "f", "i", "l", "e", "\n">>

\* fmt.Fprintf(&b, "@@ -%d,%d +%d,%d @@\n", h.S0+1, h.S1-h.S0, h.T0+1, h.T1-h.T0)
hunkHeader(h) ==
    <<"@", "@", " ", "-">> \o FormatInt(h.S0 + 1) \o <<",">> \o FormatInt(h.S1 - h.S0)
    \o <<" ", "+">> \o FormatInt(h.T0 + 1) \o <<",">> \o FormatInt(h.T1 - h.T0)
    \o <<" ", "@", "@", "\n">>

\* A variant of unifiedLine that never writes the marker.
unifiedLineNoMarker(prefix, line, missing) == <<prefix>> \o line

\* A line of the output: the prefix, the line and, for the line that lacks
\* its newline, the marker.
unifiedLine(prefix, line, missing) ==
    <<prefix>> \o line \o (IF missing THEN missingNewline ELSE <<>>)

RECURSIVE unifiedDeletes(_, _, _, _, _, _)
unifiedDeletes(xlines, rvx, s, smax, xMissing, b) ==
    IF s < smax /\ rvx[s]
    THEN unifiedDeletes(xlines, rvx, s + 1, smax, xMissing,
                        b \o unifiedLine(prefixDelete, At(xlines, s), s = xMissing))
    ELSE [s |-> s, b |-> b]

RECURSIVE unifiedInserts(_, _, _, _, _, _)
unifiedInserts(ylines, rvy, t, tmax, yMissing, b) ==
    IF t < tmax /\ rvy[t]
    THEN unifiedInserts(ylines, rvy, t + 1, tmax, yMissing,
                        b \o unifiedLine(prefixInsert, At(ylines, t), t = yMissing))
    ELSE [t |-> t, b |-> b]

RECURSIVE unifiedMatches(_, _, _, _, _, _, _, _, _)
unifiedMatches(xlines, rvx, rvy, s, t, smax, tmax, xMissing, b) ==
    IF s < smax /\ t < tmax /\ ~rvx[s] /\ ~rvy[t]
    THEN unifiedMatches(xlines, rvx, rvy, s + 1, t + 1, smax, tmax, xMissing,
                        b \o unifiedLine(prefixMatch, At(xlines, s), s = xMissing))
    ELSE [s |-> s, t |-> t, b |-> b]

\* The loop "for s, t := h.S0, h.T0; s < h.S1 || t < h.T1;" of Unified.
RECURSIVE unifiedHunk(_, _, _, _, _, _, _, _, _, _)
unifiedHunk(xlines, ylines, rvx, rvy, h, s, t, xMissing, yMissing, b) ==
    IF ~(s < h.S1 \/ t < h.T1) THEN b
    ELSE LET d == unifiedDeletes(xlines, rvx, s, h.S1, xMissing, b)
             i == unifiedInserts(ylines, rvy, t, h.T1, yMissing, d.b)
             e == unifiedMatches(xlines, rvx, rvy, d.s, i.t, h.S1, h.T1, xMissing, i.b)
         IN  unifiedHunk(xlines, ylines, rvx, rvy, h, e.s, e.t, xMissing, yMissing, e.b)

\* The loop "for h := range rvecs.Hunks(rx, ry, cfg)" that formats the output.
RECURSIVE unifiedHunks(_, _, _, _, _, _, _, _, _)
unifiedHunks(xlines, ylines, rvx, rvy, hs, i, xMissing, yMissing, b) ==
    IF i > Len(hs) THEN b
    ELSE unifiedHunks(xlines, ylines, rvx, rvy, hs, i + 1, xMissing, yMissing,
                      unifiedHunk(xlines, ylines, rvx, rvy, hs[i], hs[i].S0, hs[i].T0,
                                  xMissing, yMissing, b \o hunkHeader(hs[i])))

\* textdiff.Unified for the configuration c: the output text, with the
\* result vectors it was formatted from.
Unified(xt, yt, c) ==
    With([xl \in {SplitLines(xt)}, yl \in {SplitLines(yt)} |->
      With([d \in {Diff(xl.lines, yl.lines, c)} |->
        With([a \in {IF c.indent /\ d.panic = ""
                     THEN Apply(xl.lines, yl.lines, d.rx, d.ry, maxSliding)
                     ELSE [rx |-> d.rx, ry |-> d.ry, panic |-> d.panic]} |->
          [rx |-> a.rx, ry |-> a.ry, panic |-> a.panic,
           text |-> IF a.panic # "" THEN <<>>
                    ELSE unifiedHunks(xl.lines, yl.lines, a.rx, a.ry,
                                      Hunks(a.rx, a.ry, c.context), 1,
                                      xl.missingNewline, yl.missingNewline, <<>>)]])])])

----------------------------------------------------------------------------
(* The reference applier: the patch tool that unixpatch.Patch runs as       *)
(* "patch -u -i patchfile -o outfile origfile".  Hunks are located by the   *)
(* line numbers of their headers; a hunk without lines of the original      *)
(* (length 0) names the line it is inserted after.                          *)

\* The characters of p from i on start with lit.
StartsWith(p, i, lit) ==
    i + Len(lit) - 1 <= Len(p) /\ \A k \in 1..Len(lit) : p[i + k - 1] = lit[k]

DigitValue(c) == (CHOOSE d \in 1..10 : Digits[d] = c) - 1
IsDigit(c) == \E d \in 1..10 : Digits[d] = c

\* The decimal number at p[i..]: its value and the index after it.
RECURSIVE parseIntFrom(_, _, _, _)
parseIntFrom(p, i, v, n) ==
    IF i <= Len(p) /\ IsDigit(p[i])
    THEN parseIntFrom(p, i + 1, 10 * v + DigitValue(p[i]), n + 1)
    ELSE [ok |-> n > 0, v |-> v, i |-> i]

\* The line at p[i..], its newline included, and the index after it.
RECURSIVE readLine(_, _, _)
readLine(p, i, cur) ==
    IF i > Len(p) THEN [line |-> cur, i |-> i]
    ELSE IF p[i] = "\n" THEN [line |-> Append(cur, p[i]), i |-> i + 1]
    ELSE readLine(p, i + 1, Append(cur, p[i]))

\* The header "@@ -a,b +c,d @@\n" at p[i..].
parseHeader(p, i) ==
    LET a == parseIntFrom(p, i + 4, 0, 0)
        b == parseIntFrom(p, a.i + 1, 0, 0)
        c == parseIntFrom(p, b.i + 2, 0, 0)
        d == parseIntFrom(p, c.i + 1, 0, 0)
    IN  [ok |-> /\ StartsWith(p, i, <<"@", "@", " ", "-">>)
                /\ a.ok /\ StartsWith(p, a.i, <<",">>)
                /\ b.ok /\ StartsWith(p, b.i, <<" ", "+">>)
                /\ c.ok /\ StartsWith(p, c.i, <<",">>)
                /\ d.ok /\ StartsWith(p, d.i, <<" ", "@", "@", "\n">>),
         oldStart |-> a.v, oldLen |-> b.v, newStart |-> c.v, newLen |-> d.v,
         i |-> d.i + 4]

\* The lines of a hunk's body: oldLeft and newLeft lines of the original and
\* of the result are still to come.  A line "\ No newline at end of file"
\* takes the newline from the line before it.
RECURSIVE parseBody(_, _, _, _, _)
parseBody(p, i, oldLeft, newLeft, acc) ==
    IF oldLeft = 0 /\ newLeft = 0 THEN [ok |-> TRUE, lines |-> acc, i |-> i]
    ELSE IF i > Len(p) \/ p[i] \notin {" ", "-", "+"} THEN [ok |-> FALSE, lines |-> acc, i |-> i]
    ELSE LET l      == readLine(p, i + 1, <<>>)
             marked == l.i <= Len(p) /\ p[l.i] = "\\"
             text   == IF marked THEN SubSeq(l.line, 1, Len(l.line) - 1) ELSE l.line
             next   == IF marked THEN readLine(p, l.i, <<>>).i ELSE l.i
             o      == IF p[i] = "+" THEN oldLeft ELSE oldLeft - 1
             n      == IF p[i] = "-" THEN newLeft ELSE newLeft - 1
         IN  IF o < 0 \/ n < 0 THEN [ok |-> FALSE, lines |-> acc, i |-> i]
             ELSE parseBody(p, next, o, n, Append(acc, [op |-> p[i], text |-> text]))

\* The hunks of the patch p from index i on.
RECURSIVE parsePatch(_, _, _)
parsePatch(p, i, acc) ==
    IF i > Len(p) THEN [ok |-> TRUE, hunks |-> acc]
    ELSE With([h \in {parseHeader(p, i)} |->
           With([b \in {IF h.ok THEN parseBody(p, h.i, h.oldLen, h.newLen, <<>>)
                        ELSE [ok |-> FALSE, lines |-> <<>>, i |-> i]} |->
             IF ~b.ok THEN [ok |-> FALSE, hunks |-> acc]
             ELSE parsePatch(p, b.i, Append(acc, [oldStart |-> h.oldStart,
                                                  oldLen |-> h.oldLen,
                                                  lines |-> b.lines]))])])

\* The lines of a hunk applied at line s of the original (counted from 0):
\* ' ' and '-' lines must be the lines of the original.
RECURSIVE applyHunkLines(_, _, _, _, _)
applyHunkLines(olines, hl, k, s, res) ==
    IF k > Len(hl) THEN [ok |-> TRUE, s |-> s, res |-> res]
    ELSE IF hl[k].op = "+" THEN applyHunkLines(olines, hl, k + 1, s, Append(res, hl[k].text))
    ELSE IF s >= Len(olines) \/ At(olines, s) # hl[k].text THEN [ok |-> FALSE, s |-> s, res |-> res]
    ELSE applyHunkLines(olines, hl, k + 1, s + 1,
                        IF hl[k].op = " " THEN Append(res, hl[k].text) ELSE res)

\* The hunks from the k-th on applied to the original from line s on.
RECURSIVE applyHunks(_, _, _, _, _)
applyHunks(olines, hs, k, s, res) ==
    IF k > Len(hs) THEN [ok |-> TRUE, res |-> res \o SubSeq(olines, s + 1, Len(olines))]
    ELSE LET at == IF hs[k].oldLen = 0 THEN Min2(hs[k].oldStart, Len(olines))
                   ELSE hs[k].oldStart - 1
         IN  IF at < s \/ at > Len(olines) THEN [ok |-> FALSE, res |-> res]
             ELSE LET a == applyHunkLines(olines, hs[k].lines, 1, at,
                                          res \o SubSeq(olines, s + 1, at))
                  IN  IF ~a.ok THEN [ok |-> FALSE, res |-> res]
                      ELSE applyHunks(olines, hs, k + 1, a.s, a.res)

\* The output file: the lines one after the other; a line without a newline
\* that another line follows is written with one.
RECURSIVE Concat(_, _)
Concat(ls, i) ==
    IF i > Len(ls) THEN <<>>
    ELSE LET l == ls[i]
             complete == i = Len(ls) \/ (Len(l) > 0 /\ l[Len(l)] = "\n")
         IN  (IF complete THEN l ELSE Append(l, "\n")) \o Concat(ls, i + 1)

\* The lines of a text for the applier: a last line without a newline is a
\* line of its own.
PatchLines(t) == SplitLines(t).lines

\* unixpatch.Patch: the empty diff returns orig; otherwise the output of the
\* patch tool, or its failure.
Patch(orig, diff) ==
    IF Len(diff) = 0 THEN [ok |-> TRUE, text |-> orig]
    ELSE With([pp \in {parsePatch(diff, 1, <<>>)} |->
           With([a \in {IF pp.ok THEN applyHunks(PatchLines(orig), pp.hunks, 1, 0, <<>>)
                        ELSE [ok |-> FALSE, res |-> <<>>]} |->
             [ok |-> a.ok, text |-> IF a.ok THEN Concat(a.res, 1) ELSE <<>>]])])

----------------------------------------------------------------------------
(* Unified on every pair of texts up to MaxText characters, and the patch   *)
(* tool on its output.                                                      *)

MaxText == 5

TextChars == {"a", "\n"}

InitText ==
    /\ x \in SeqsUpTo(TextChars, MaxText)
    /\ y \in SeqsUpTo(TextChars, MaxText)
    /\ cfg = noCfg
    /\ pc = "start"
    /\ rx = <<>>
    /\ ry = <<>>
    /\ aux = [panic |-> ""]
    /\ out = [kind |-> "none"]

\* textdiff.Unified(x, y, opts...) with the options Context(context), Optimal
\* or Fast for the mode, and IndentHeuristic.
CallUnified(mode, context, indent) ==
    /\ pc = "start"
    /\ \E c \in {[cfg EXCEPT !.entry = "Unified", !.mode = mode, !.context = context,
                                !.indent = indent]} :
          \E u \in {Unified(x, y, c)} :
             /\ cfg' = c
             /\ rx' = u.rx
             /\ ry' = u.ry
             /\ aux' = [panic |-> u.panic]
             /\ out' = [kind |-> "unified", text |-> u.text]
    /\ pc' = "unified"
    /\ UNCHANGED <<x, y>>

\* unixpatch.Patch(x, unified)
CallPatch ==
    /\ pc = "unified"
    /\ aux.panic = ""
    /\ \E r \in {Patch(x, out.text)} :
          out' = [kind |-> "patched", ok |-> r.ok, text |-> r.text, unified |-> out.text]
    /\ pc' = "patched"
    /\ UNCHANGED <<x, y, cfg, rx, ry, aux>>

NextText ==
    \/ \E mode \in Modes, context \in 0..MaxContext, indent \in BOOLEAN :
          CallUnified(mode, context, indent)
    \/ CallPatch

SpecText == InitText /\ [][NextText]_vars

\* C5: for any texts and any supported options, the patch tool applied to x
\* with the output of Unified(x, y) succeeds and produces exactly y.
C5_PatchRoundTrip ==
    pc = "patched" => (out.ok /\ out.text = y)

----------------------------------------------------------------------------
(* internal/config and options.go: option composition.  options.go and the *)
(* entry points name the second flag config.Optimal and its mode            *)
(* config.ModeOptimal; config.go declares them as Minimal and ModeMinimal.  *)

\* config.Flag: Context Flag = 1 << iota, Minimal, Fast, IndentHeuristic.
FlagContext == 1
FlagMinimal == 2
FlagFast == 4
FlagIndentHeuristic == 8

\* Number of bits of a config.Flag that the flags above use.
FlagBits == 4

\* Largest number of options in a call.
MaxOpts == 3

Bit(v, i) == (v \div (2 ^ i)) % 2

RECURSIVE AndNotFrom(_, _, _)
AndNotFrom(a, b, i) ==
    IF i >= FlagBits THEN 0
    ELSE (IF Bit(a, i) = 1 /\ Bit(b, i) = 0 THEN 2 ^ i ELSE 0) + AndNotFrom(a, b, i + 1)

\* A variant of AndNot that looks at the lowest bit only.
AndNotLowestBit(a, b) == IF Bit(a, 0) = 1 /\ Bit(b, 0) = 0 THEN 1 ELSE 0

\* a & ^b
AndNot(a, b) == AndNotFrom(a, b, 0)

\* The options: diff.Context(n), diff.Optimal(), diff.Fast(),
\* textdiff.IndentHeuristic() and the function the tests write inline to force
\* the anchoring heuristic.
Context(n) == [name |-> "Context", n |-> n]
Optimal == [name |-> "Optimal", n |-> 0]
Fast == [name |-> "Fast", n |-> 0]
IndentHeuristic == [name |-> "IndentHeuristic", n |-> 0]
ForceAnchoringHeuristic == [name |-> "ForceAnchoringHeuristic", n |-> 0]

\* opt(&cfg): the configuration the option leaves and the flag it returns.
callOption(opt, c) ==
    CASE opt.name = "Context" ->
             [cfg |-> [c EXCEPT !.context = Max2(0, opt.n)], flag |-> FlagContext]
      [] opt.name = "Optimal" ->
             [cfg |-> [c EXCEPT !.mode = "minimal"], flag |-> FlagMinimal]
      [] opt.name = "Fast" ->
             [cfg |-> [c EXCEPT !.mode = "fast"], flag |-> FlagFast]
      [] opt.name = "IndentHeuristic" ->
             [cfg |-> [c EXCEPT !.indent = TRUE], flag |-> FlagIndentHeuristic]
      [] opt.name = "ForceAnchoringHeuristic" ->
             [cfg |-> [c EXCEPT !.force = TRUE], flag |-> 0]

printFlag(flag) ==
    CASE flag = FlagContext -> "diff.Context"
      [] flag = FlagMinimal -> "diff.Minimal"
      [] flag = FlagFast -> "diff.Fast"
      [] flag = FlagIndentHeuristic -> "textdiff.IndentHeuristic"
      [] OTHER -> "never reached"

\* The loop "for _, opt := range opts" of FromOptions from opts[i] on.
RECURSIVE fromOptionsLoop(_, _, _, _)
fromOptionsLoop(opts, i, c, allowed) ==
    IF i > Len(opts) THEN [cfg |-> c, panic |-> "", applied |-> i - 1]
    ELSE With([o \in {callOption(opts[i], c)} |->
           IF AndNot(o.flag, allowed) # 0
           THEN [cfg |-> o.cfg,
                 panic |-> "Option " \o printFlag(o.flag) \o " not allowed here",
                 applied |-> i]
           ELSE fromOptionsLoop(opts, i + 1, o.cfg, allowed)])

\* A variant of the final check of FromOptions that accepts everything.
modeCheckNone(c) == ""

\* if cfg.Mode != ModeDefault && cfg.ForceAnchoringHeuristic { panic(...) }
modeCheck(c) ==
    IF c.mode # "default" /\ c.force
    THEN "ForceAnchoringHeuristic may only be set for ModeDefault"
    ELSE ""

\* config.FromOptions, from the configuration d (config.Default).
FromOptions(opts, allowed, d) ==
    With([l \in {fromOptionsLoop(opts, 1, d, allowed)} |->
      IF l.panic # "" THEN l
      ELSE [cfg |-> l.cfg, panic |-> modeCheck(l.cfg), applied |-> l.applied]])

\* The public entry points and the flags each of them allows.
EntryPoints == {"diff.Hunks", "diff.HunksFunc", "diff.Edits", "diff.EditsFunc",
                "textdiff.Hunks", "textdiff.Edits", "textdiff.Unified"}

allowedFlags(entry) ==
    CASE entry \in {"diff.Hunks", "diff.HunksFunc"} -> FlagContext + FlagMinimal
      [] entry \in {"diff.Edits", "diff.EditsFunc"} -> FlagMinimal
      [] entry \in {"textdiff.Hunks", "textdiff.Unified"} ->
             FlagContext + FlagMinimal + FlagFast + FlagIndentHeuristic
      [] entry = "textdiff.Edits" -> FlagMinimal + FlagFast + FlagIndentHeuristic

OptionValues ==
    {Context(-1), Context(0), Context(2), Optimal, Fast, IndentHeuristic,
     ForceAnchoringHeuristic}

\* A call of an entry point on a fixed pair of inputs with every list of up
\* to MaxOpts options; aux holds the option list.
InitOptions ==
    /\ x = <<1, 2, 2>>
    /\ y = <<2, 1, 2>>
    /\ cfg \in {[noCfg EXCEPT !.entry = e] : e \in EntryPoints}
    /\ pc = "start"
    /\ rx = <<>>
    /\ ry = <<>>
    /\ aux \in {[opts |-> o, panic |-> "", applied |-> 0] : o \in SeqsUpTo(OptionValues, MaxOpts)}
    /\ out = [kind |-> "none"]

\* The first statement of every entry point: cfg := config.FromOptions(opts,
\* allowed).  A panic ends the call.
CallFromOptions ==
    /\ pc = "start"
    /\ \E f \in {FromOptions(aux.opts, allowedFlags(cfg.entry), cfg)} :
          /\ cfg' = f.cfg
          /\ aux' = [aux EXCEPT !.panic = f.panic, !.applied = f.applied]
          /\ pc' = IF f.panic # "" THEN "panicked" ELSE "configured"
    /\ UNCHANGED <<x, y, rx, ry, out>>

\* The comparison of the entry point: impl.DiffFunc for the Func variants,
\* impl.Diff for the others.
CallCompare ==
    /\ pc = "configured"
    /\ \E d \in {IF cfg.entry \in {"diff.HunksFunc", "diff.EditsFunc"}
                 THEN DiffFunc(x, y, "eq", cfg) ELSE Diff(x, y, cfg)} :
          /\ rx' = d.rx
          /\ ry' = d.ry
    /\ pc' = "diffed"
    /\ UNCHANGED <<x, y, cfg, aux, out>>

NextOptions == CallFromOptions \/ CallCompare

SpecOptions == InitOptions /\ [][NextOptions]_vars

\* The options each entry point documents as supported; the function that
\* forces anchoring returns no flag and is accepted by all of them.
Supported(entry) ==
    {"ForceAnchoringHeuristic"} \cup
    CASE entry \in {"diff.Hunks", "diff.HunksFunc"} -> {"Context", "Optimal"}
      [] entry \in {"diff.Edits", "diff.EditsFunc"} -> {"Optimal"}
      [] entry \in {"textdiff.Hunks", "textdiff.Unified"} ->
             {"Context", "Optimal", "Fast", "IndentHeuristic"}
      [] entry = "textdiff.Edits" -> {"Optimal", "Fast", "IndentHeuristic"}

\* Positions of the options of the call that its entry point does not support.
NotApplicable ==
    {i \in 1..Len(aux.opts) : aux.opts[i].name \notin Supported(cfg.entry)}

OptionNames == {aux.opts[i].name : i \in 1..Len(aux.opts)}

\* C11: when the option list holds an option that is not applicable to the
\* entry point, at whatever position, FromOptions panics at the first such
\* option and the call never gets to the comparison.
C11_NotApplicablePanics ==
    (pc # "start" /\ NotApplicable # {}) =>
        /\ pc = "panicked"
        /\ aux.applied = CHOOSE i \in NotApplicable : \A j \in NotApplicable : i <= j
        /\ rx = <<>> /\ ry = <<>>

\* A call that panicked on a not-applicable option standing last in a list
\* of three, after two applicable ones.
C11_Witness ==
    /\ pc = "panicked"
    /\ NotApplicable = {3}
    /\ aux.applied = 3

\* C12 as stated: a list with both Optimal() and Fast(), or with forced
\* anchoring and a mode option, always panics.
C12_ExclusivePairsPanic ==
    (pc # "start" /\ ({"Optimal", "Fast"} \subseteq OptionNames
                     \/ ({"ForceAnchoringHeuristic"} \subseteq OptionNames
                         /\ OptionNames \cap {"Optimal", "Fast"} # {}))) =>
        pc = "panicked"

\* C12: a list that forces anchoring and sets a mode always panics; a list of
\* applicable options with both Optimal() and Fast() and no forced anchoring
\* is accepted and the comparison runs in the mode of the last of the two.
C12_ForcedAnchoringPanics ==
    /\ (pc # "start" /\ "ForceAnchoringHeuristic" \in OptionNames
                     /\ OptionNames \cap {"Optimal", "Fast"} # {})
           => (pc = "panicked" /\ rx = <<>> /\ ry = <<>>)
    /\ (pc # "start" /\ NotApplicable = {} /\ "ForceAnchoringHeuristic" \notin OptionNames
                     /\ {"Optimal", "Fast"} \subseteq OptionNames)
           => /\ pc \in {"configured", "diffed"}
              /\ LET last == CHOOSE i \in 1..Len(aux.opts) :
                                 /\ aux.opts[i].name \in {"Optimal", "Fast"}
                                 /\ \A j \in (i + 1)..Len(aux.opts) :
                                        aux.opts[j].name \notin {"Optimal", "Fast"}
                 IN  cfg.mode = IF aux.opts[last].name = "Fast" THEN "fast" ELSE "minimal"
    /\ pc \in {"configured", "diffed"} => ~(cfg.force /\ cfg.mode # "default")

\* A call with applicable options only that panicked in the final check:
\* forced anchoring with Optimal().
C12_Witness ==
    /\ pc = "panicked"
    /\ NotApplicable = {}
    /\ OptionNames = {"ForceAnchoringHeuristic", "Optimal"}

----------------------------------------------------------------------------
(* The missing-newline marker in the output of Unified *)

\* Number of lines of the text v: one per newline, and one more for what
\* follows the last newline.
NumLines(v) ==
    Cardinality({i \in 1..Len(v) : v[i] = "\n"})
    + (IF v # <<>> /\ v[Len(v)] # "\n" THEN 1 ELSE 0)

\* The line with Go index i is the last line of the text v, and v is not
\* empty and does not end in a newline.
LastUnterminated(v, i) ==
    v # <<>> /\ v[Len(v)] # "\n" /\ i = NumLines(v) - 1

\* The lines of hunk h from (s, t) on, in the order of the cursor walk, each
\* followed by the marker exactly when it is the unterminated last line of
\* its side.
RECURSIVE MarkedLines(_, _, _)
MarkedLines(h, s, t) ==
    LET xl == SplitLines(x).lines
        yl == SplitLines(y).lines
        mark(m) == IF m THEN missingNewline ELSE <<>>
    IN  IF s < h.S1 /\ rx[s]
        THEN <<"-">> \o At(xl, s) \o mark(LastUnterminated(x, s)) \o MarkedLines(h, s + 1, t)
        ELSE IF t < h.T1 /\ ry[t]
        THEN <<"+">> \o At(yl, t) \o mark(LastUnterminated(y, t)) \o MarkedLines(h, s, t + 1)
        ELSE IF s < h.S1 /\ t < h.T1
        THEN <<" ">> \o At(xl, s) \o mark(LastUnterminated(x, s) \/ LastUnterminated(y, t))
             \o MarkedLines(h, s + 1, t + 1)
        ELSE <<>>

RECURSIVE MarkedHunks(_, _)
MarkedHunks(hs, i) ==
    IF i > Len(hs) THEN <<>>
    ELSE hunkHeader(hs[i]) \o MarkedLines(hs[i], hs[i].S0, hs[i].T0) \o MarkedHunks(hs, i + 1)

UnifiedReturned == pc = "unified" /\ aux.panic = ""

\* C13: in the output of Unified the marker follows a line exactly when the
\* line is the last line of its side and that side's text is not empty and
\* does not end in a newline (a matching line is the last line of both sides
\* or of neither); an empty text against a single empty line gives a header
\* with length zero on the empty side and no marker.
C13_MissingNewlineMarker ==
    UnifiedReturned =>
        /\ out.text = MarkedHunks(Hunks(rx, ry, cfg.context), 1)
        /\ \A s \in 0..(NumLines(x) - 1), t \in 0..(NumLines(y) - 1) :
               (~rx[s] /\ ~ry[t] /\ s - Popcount(rx, 0, s) = t - Popcount(ry, 0, t))
                   => (LastUnterminated(x, s) <=> LastUnterminated(y, t))
        /\ (x = <<>> /\ y = <<"\n">>) =>
               out.text = <<"@", "@", " ", "-", "1", ",", "0", " ", "+", "1", ",", "1",
                            " ", "@", "@", "\n", "+", "\n">>
        /\ (x = <<"\n">> /\ y = <<>>) =>
               out.text = <<"@", "@", " ", "-", "1", ",", "1", " ", "+", "1", ",", "0",
                            " ", "@", "@", "\n", "-", "\n">>

\* Unified returned an output in which a matching line, the unterminated last
\* line of both texts, carries the marker.
C13_Witness ==
    /\ UnifiedReturned
    /\ x = <<"\n", "a">>
    /\ y = <<"a">>
    /\ cfg.context = 1
    /\ out.text = <<"@", "@", " ", "-", "1", ",", "2", " ", "+", "1", ",", "1", " ", "@",
                    "@", "\n", "-", "\n", " ", "a">> \o missingNewline

----------------------------------------------------------------------------
(* The order of the edits: edits, hunks and the formatting loop of Unified  *)
(* on every valid pair of result vectors.                                   *)

\* The line that stands for the element e in the text of Unified.
lineOf(e) == (IF e > 0 THEN <<"x">> \o FormatInt(e) ELSE <<"y">> \o FormatInt(-e)) \o <<"\n">>

linesOf(q) == [i \in 1..Len(q) |-> lineOf(q[i])]

\* The formatting loop of Unified on the vectors, for lines that all end in
\* a newline.
FormatUnified(context) ==
    /\ pc = "diffed"
    /\ aux.panic = ""
    /\ cfg' = [cfg EXCEPT !.context = context]
    /\ out' = [kind |-> "unified",
               text |-> unifiedHunks(linesOf(x), linesOf(y), rx, ry,
                                     Hunks(rx, ry, context), 1, -1, -1, <<>>)]
    /\ pc' = "done"
    /\ UNCHANGED <<x, y, rx, ry, aux>>

NextOrder ==
    \/ ReturnEdits
    \/ \E context \in 0..MaxContext : ReturnHunks(context)
    \/ \E context \in 0..MaxContext : FormatUnified(context)

SpecOrder == InitHunks /\ [][NextOrder]_vars

\* No Insert edit of es is immediately followed by a Delete edit.
NoInsertThenDelete(es) ==
    \A i \in 1..(Len(es) - 1) : ~(es[i].op = "Insert" /\ es[i + 1].op = "Delete")

\* In every maximal run of non-Match edits of es the Deletes come first.
DeletesFirst(es) ==
    \A i, j \in 1..Len(es) :
        (i < j /\ es[i].op = "Insert" /\ es[j].op = "Delete")
            => \E k \in (i + 1)..(j - 1) : es[k].op = "Match"

\* The first characters of the lines of the text t, in order.
LinePrefixes(t) ==
    LET starts == {p \in 1..Len(t) : p = 1 \/ t[p - 1] = "\n"}
        RECURSIVE from(_)
        from(p) == IF p > Len(t) THEN <<>>
                   ELSE IF p \in starts THEN <<t[p]>> \o from(p + 1)
                   ELSE from(p + 1)
    IN  from(1)

\* C14: in the output of edits, inside every hunk of hunks and in the text
\* of Unified an Insert is never immediately followed by a Delete; within
\* each maximal run of non-Match edits all Deletes come before all Inserts.
C14_DeletesBeforeInserts ==
    /\ (pc = "done" /\ out.kind = "edits") =>
           (NoInsertThenDelete(out.edits) /\ DeletesFirst(out.edits))
    /\ (pc = "done" /\ out.kind = "hunks") =>
           \A i \in 1..Len(out.hunks) :
               NoInsertThenDelete(out.hunks[i].Edits) /\ DeletesFirst(out.hunks[i].Edits)
    /\ (pc = "done" /\ out.kind = "unified") =>
           LET p == LinePrefixes(out.text)
           IN  \A i \in 1..(Len(p) - 1) : ~(p[i] = "+" /\ p[i + 1] = "-")

\* Vectors with two deletions and two insertions at the same place, returned
\* as edits: Delete, Delete, Insert, Insert.
C14_Witness ==
    /\ pc = "done"
    /\ out.kind = "edits"
    /\ \E i \in 1..(Len(out.edits) - 3) :
          /\ out.edits[i].op = "Delete" /\ out.edits[i + 1].op = "Delete"
          /\ out.edits[i + 2].op = "Insert" /\ out.edits[i + 3].op = "Insert"
    /\ \E s \in 0..LastIndex(rx), t \in 0..LastIndex(ry) : ~rx[s] /\ ~ry[t] /\ s < LastIndex(rx)

----------------------------------------------------------------------------
(* internal/impl/myers.go: the calls of split made by one impl.Diff or
   impl.DiffFunc call *)

\* Longest input of the specification of the split calls.
MaxMyersLen == 6

\* The thresholds of the heuristics scaled down to the inputs of the model,
\* so that GOOD_DIAGONAL and TOO_EXPENSIVE are taken: with minCost = 1 the
\* cost limit is the value computed by the loop of init.
ScaledLimits ==
    [minCost |-> 1, minLen |-> 2, diagCost |-> 1, magic |-> goodDiagMagic,
     anchorLen |-> anchoringHeuristicMinInputLen]

\* The scaled thresholds with a GOOD_DIAGONAL factor of 1, which lets the
\* short diagonals of the forward paths qualify.
ScaledLimitsLow == [ScaledLimits EXCEPT !.magic = 1]

MyersInputs == SeqsUpTo({1, 2}, MaxMyersLen) \cup SeqsUpTo(Vals, MaxLen)

InitMyers ==
    /\ x \in MyersInputs
    /\ y \in MyersInputs
    /\ cfg \in {[noCfg EXCEPT !.lim = l] : l \in {SourceLimits, ScaledLimits, ScaledLimitsLow}}
    /\ pc = "start"
    /\ rx = <<>>
    /\ ry = <<>>
    /\ aux = noAux
    /\ out = [kind |-> "none"]

\* impl.Diff in a mode that runs Myers; out receives the calls of split.
CallDiffTraced(mode, force) ==
    /\ pc = "start"
    /\ mode # "fast"
    /\ force => mode = "default"
    /\ \E c \in {[cfg EXCEPT !.entry = "Diff", !.mode = mode, !.force = force]} :
          \E d \in {Diff(x, y, c)} :
             /\ cfg' = c
             /\ rx' = d.rx
             /\ ry' = d.ry
             /\ aux' = auxOf(d)
             /\ out' = [kind |-> "calls", calls |-> d.calls]
    /\ pc' = "done"
    /\ UNCHANGED <<x, y>>

\* impl.DiffFunc; out receives the calls of split.
CallDiffFuncTraced(mode) ==
    /\ pc = "start"
    /\ \E c \in {[cfg EXCEPT !.entry = "DiffFunc", !.mode = mode]} :
          \E d \in {DiffFunc(x, y, c.eqk, c)} :
             /\ cfg' = c
             /\ rx' = d.rx
             /\ ry' = d.ry
             /\ aux' = auxOf(d)
             /\ out' = [kind |-> "calls", calls |-> d.calls]
    /\ pc' = "done"
    /\ UNCHANGED <<x, y>>

NextMyers ==
    \/ \E mode \in Modes, force \in BOOLEAN : CallDiffTraced(mode, force)
    \/ \E mode \in Modes : CallDiffFuncTraced(mode)

SpecMyers == InitMyers /\ [][NextMyers]_vars

\* The split calls of the finished call.
SplitCalls == IF out.kind = "calls" THEN {out.calls[i] : i \in DOMAIN out.calls} ELSE {}

----------------------------------------------------------------------------
(* Claims about split and compare *)

SplitExits == {"overlap", "good_diagonal", "too_expensive"}

\* N+M of the window of a split call.
WindowSize(c) == (c.smax - c.smin) + (c.tmax - c.tmin)

\* diagonals of myers.init for the finished call; vf and vb have
\* 2*diagonals+3 slots and v0 is diagonals+1.
Diagonals == (aux.win0.smax - aux.win0.smin) + (aux.win0.tmax - aux.win0.tmin)

\* C15: every call of split, with optimal true or false, returns within N+M
\* iterations of d, through the overlap or (only when optimal is false)
\* through a heuristic, never by a panic; every index from v0+kmin-1 to
\* v0+kmax+1 lies within the 2*(N+M)+3 slots allocated by init; and both
\* rectangles compare recurses into are strictly smaller than the window, so
\* the recursion terminates.
C15_SplitTerminates ==
    pc = "done" =>
        /\ aux.panic = ""
        /\ \A c \in SplitCalls :
              /\ c.exit \in (IF c.optimal THEN {"overlap"} ELSE SplitExits)
              /\ 1 <= c.d /\ c.d <= WindowSize(c)
              /\ 0 <= (Diagonals + 1) + (c.smin - c.tmax) - 1
              /\ (Diagonals + 1) + (c.smax - c.tmin) + 1 <= 2 * Diagonals + 2
              /\ (c.s0 - c.smin) + (c.t0 - c.tmin) < WindowSize(c)
              /\ (c.smax - c.s1) + (c.tmax - c.t1) < WindowSize(c)

\* A finished call whose recursion made at least three calls of split, one of
\* them with optimal = false that ran to the cost limit, one that returned at
\* an overlap.
C15_Witness ==
    /\ pc = "done"
    /\ aux.panic = ""
    /\ Len(out.calls) >= 3
    /\ \E c \in SplitCalls : c.exit = "too_expensive" /\ ~c.optimal
    /\ \E c \in SplitCalls : c.exit = "overlap" /\ c.d >= 2

\* The sequences the calls of split index: x0 and y0 of preprocess for
\* impl.Diff, the inputs themselves for impl.DiffFunc.
MyersX == IF cfg.entry = "Diff" THEN aux.pre.x0 ELSE x
MyersY == IF cfg.entry = "Diff" THEN aux.pre.y0 ELSE y

\* (s0, s1, t0, t1) is a possibly empty run of diagonal edges inside the window.
SnakeInWindow(c) ==
    /\ c.smin <= c.s0 /\ c.s0 <= c.s1 /\ c.s1 <= c.smax
    /\ c.tmin <= c.t0 /\ c.t0 <= c.t1 /\ c.t1 <= c.tmax
    /\ c.s1 - c.s0 = c.t1 - c.t0

SnakeMatches(c) ==
    \A i \in 0..(c.s1 - c.s0 - 1) :
        /\ c.s0 + i < Len(MyersX)
        /\ c.t0 + i < Len(MyersY)
        /\ At(MyersX, c.s0 + i) = At(MyersY, c.t0 + i)

\* C16: whichever exit a call of split takes, the (s0, s1, t0, t1) it returns
\* lies inside its window, spans as many elements of x as of y, and
\* x[s0+i] = y[t0+i] for every 0 <= i < s1 - s0.
C16_SnakeInsideWindowAndMatching ==
    pc = "done" /\ aux.panic = "" =>
        \A c \in SplitCalls : SnakeInWindow(c) /\ SnakeMatches(c)

\* A finished call in which split returned a non-empty snake through a
\* heuristic exit and, deeper in the recursion, one through an overlap.
C16_Witness ==
    /\ pc = "done"
    /\ aux.panic = ""
    /\ \E c \in SplitCalls : c.exit = "overlap" /\ c.s1 > c.s0
    /\ \E c \in SplitCalls : c.exit \in {"good_diagonal", "too_expensive"} /\ c.s1 > c.s0

\* x[smin:smax] and y[tmin:tmax] have no common prefix and no common suffix,
\* or one of them is empty.
NoCommonEnds(smin, smax, tmin, tmax) ==
    \/ smin >= smax
    \/ tmin >= tmax
    \/ /\ At(MyersX, smin) # At(MyersY, tmin)
       /\ At(MyersX, smax - 1) # At(MyersY, tmax - 1)

\* C17: when the window of a call of split has no common prefix and no
\* common suffix, neither has the rectangle (smin,tmin)-(s0,t0) nor the
\* rectangle (s1,t1)-(smax,tmax) compare recurses into (unless it is empty
\* on one side), whichever exit split took.
C17_RectanglesKeepPrecondition ==
    pc = "done" /\ aux.panic = "" =>
        \A c \in SplitCalls :
            NoCommonEnds(c.smin, c.smax, c.tmin, c.tmax) =>
                /\ NoCommonEnds(c.smin, c.s0, c.tmin, c.t0)
                /\ NoCommonEnds(c.s1, c.smax, c.t1, c.tmax)

\* C18: a call of split with optimal = true returns through the overlap with
\* opt0 = opt1 = true; and in mode Minimal, where compare is entered with
\* optimal = true, every call of split at every depth has optimal = true, so
\* neither GOOD_DIAGONAL nor TOO_EXPENSIVE is taken.
C18_OptimalStaysOptimal ==
    pc = "done" /\ aux.panic = "" =>
        /\ \A c \in SplitCalls : c.optimal => c.exit = "overlap" /\ c.opt0 /\ c.opt1
        /\ cfg.mode = "minimal" => \A c \in SplitCalls : c.optimal

\* A finished call in mode Minimal under the scaled thresholds whose
\* recursion is at least three calls of split deep or wide and in which split
\* ran past the cost limit, where TOO_EXPENSIVE would return if optimal were
\* false.
C18_Witness ==
    /\ pc = "done"
    /\ aux.panic = ""
    /\ cfg.mode = "minimal"
    /\ cfg.lim = ScaledLimits
    /\ Len(out.calls) >= 3
    /\ \E c \in SplitCalls : c.optimal /\ c.d > costLimitLoop(Diagonals)

----------------------------------------------------------------------------
(* internal/impl/api.go: the anchoring drivers on inputs with up to four
   distinct elements *)

\* Longest input and element values of the specification of the anchoring.
MaxAnchorLen == 4
AnchorVals == {1, 2, 3, 4}

\* The source thresholds with the minimum input length of the ANCHORING
\* heuristic scaled down to the inputs of the model.
AnchorLimits == [SourceLimits EXCEPT !.anchorLen = MaxAnchorLen]

InitAnchors ==
    /\ x \in SeqsUpTo(AnchorVals, MaxAnchorLen)
    /\ y \in SeqsUpTo(AnchorVals, MaxAnchorLen)
    /\ cfg = [noCfg EXCEPT !.lim = AnchorLimits]
    /\ pc = "start"
    /\ rx = <<>>
    /\ ry = <<>>
    /\ aux = noAux
    /\ out = [kind |-> "none"]

NextAnchors ==
    \/ CallDiff("default", FALSE)
    \/ CallDiff("default", TRUE)
    \/ CallDiff("fast", FALSE)

SpecAnchors == InitAnchors /\ [][NextAnchors]_vars

\* The call went through the loop over the segments: diffFast, or diffDefault
\* with anchoring active or forced.
Anchored == pc = "diffed" /\ aux.panic = "" /\ ~aux.trivial /\ aux.anchors # <<>>

\* The steps of the loop whose gap [done, start) / extension [start, end)
\* holds position i of x0, and position j of y0.
GapsOfX(i) == {k \in 1..Len(aux.gaps) : aux.gaps[k].done.s <= i /\ i < aux.gaps[k].start.s}
ExtsOfX(i) == {k \in 1..Len(aux.gaps) : aux.gaps[k].start.s <= i /\ i < aux.gaps[k].end.s}
GapsOfY(j) == {k \in 1..Len(aux.gaps) : aux.gaps[k].done.t <= j /\ j < aux.gaps[k].start.t}
ExtsOfY(j) == {k \in 1..Len(aux.gaps) : aux.gaps[k].start.t <= j /\ j < aux.gaps[k].end.t}

\* The extension of step k is a diagonal of equal elements that the result
\* leaves unmarked.
MatchedExtension(k) ==
    LET g == aux.gaps[k]
    IN  /\ g.start.s <= g.end.s /\ g.start.t <= g.end.t
        /\ g.end.s - g.start.s = g.end.t - g.start.t
        /\ \A i \in g.start.s..(g.end.s - 1) :
              /\ At(aux.pre.x0, i) = At(aux.pre.y0, i + (g.start.t - g.start.s))
              /\ ~rx[At(aux.pre.xidx, i)]
              /\ ~ry[At(aux.pre.yidx, i + (g.start.t - g.start.s))]

\* C19: with anchoring, every position of x0 and of y0 in the window
\* [smin0,smax0) x [tmin0,tmax0) lies in exactly one gap [done, start) or one
\* matched extension [start, end); every gap has done.s <= start.s and
\* done.t <= start.t; gaps and extensions stay inside the window; and the
\* last extension ends at (smax0, tmax0), so nothing is left unprocessed.
C19_GapsAndExtensionsPartition ==
    Anchored =>
        /\ \A i \in aux.win0.smin..(aux.win0.smax - 1) :
              Cardinality(GapsOfX(i)) + Cardinality(ExtsOfX(i)) = 1
        /\ \A j \in aux.win0.tmin..(aux.win0.tmax - 1) :
              Cardinality(GapsOfY(j)) + Cardinality(ExtsOfY(j)) = 1
        /\ \A k \in 1..Len(aux.gaps) :
              /\ aux.gaps[k].done.s <= aux.gaps[k].start.s
              /\ aux.gaps[k].done.t <= aux.gaps[k].start.t
              /\ aux.win0.smin <= aux.gaps[k].done.s /\ aux.gaps[k].end.s <= aux.win0.smax
              /\ aux.win0.tmin <= aux.gaps[k].done.t /\ aux.gaps[k].end.t <= aux.win0.tmax
              /\ MatchedExtension(k)
        /\ Len(aux.gaps) >= 1
        /\ aux.gaps[Len(aux.gaps)].end = [s |-> aux.win0.smax, t |-> aux.win0.tmax]

\* An anchored call of diffDefault with two non-empty gaps, two non-empty
\* extensions, and an anchor of the list that the loop skipped because an
\* earlier extension had passed it.
C19_Witness ==
    /\ Anchored
    /\ cfg.mode = "default"
    /\ \E k1, k2 \in 1..Len(aux.gaps) :
          /\ k1 < k2
          /\ aux.gaps[k1].done.s < aux.gaps[k1].start.s
          /\ aux.gaps[k2].done.t < aux.gaps[k2].start.t
          /\ aux.gaps[k1].start.s < aux.gaps[k1].end.s
    /\ Len(aux.gaps) < LastIndex(aux.anchors)

\* The IDs of the anchors (the elements whose counter is 1+4) of q[lo:hi], in
\* the order of q.
RECURSIVE AnchorIDs(_, _, _)
AnchorIDs(q, lo, hi) ==
    IF lo >= hi THEN <<>>
    ELSE IF aux.pre.counts[At(q, lo)] = 1 + 4
         THEN <<At(q, lo)>> \o AnchorIDs(q, lo + 1, hi)
         ELSE AnchorIDs(q, lo + 1, hi)

\* The anchors segments returned, without the two sentinels.
InnerAnchors == 1..(LastIndex(aux.anchors) - 1)

\* C20: the anchors returned by segments, sentinels excluded, are strictly
\* increasing in s and in t, each pairs an element of x0 with an equal
\* element of y0 whose counter is 1+4, and there are as many of them as the
\* longest common subsequence of the anchors in x-order and in y-order has
\* elements.
C20_SegmentsAreAnchorLCS ==
    Anchored =>
        /\ \A a, b \in InnerAnchors :
              a < b => /\ aux.anchors[a].s < aux.anchors[b].s
                       /\ aux.anchors[a].t < aux.anchors[b].t
        /\ \A a \in InnerAnchors :
              /\ aux.win0.smin <= aux.anchors[a].s /\ aux.anchors[a].s < aux.win0.smax
              /\ aux.win0.tmin <= aux.anchors[a].t /\ aux.anchors[a].t < aux.win0.tmax
              /\ At(aux.pre.x0, aux.anchors[a].s) = At(aux.pre.y0, aux.anchors[a].t)
              /\ aux.pre.counts[At(aux.pre.x0, aux.anchors[a].s)] = 1 + 4
        /\ With([xa \in {AnchorIDs(aux.pre.x0, aux.win0.smin, aux.win0.smax)},
                 ya \in {AnchorIDs(aux.pre.y0, aux.win0.tmin, aux.win0.tmax)} |->
              Cardinality(InnerAnchors) = LcsLen("eq", xa, ya, Len(xa), Len(ya))])
        /\ aux.anchors[0] = [s |-> aux.win0.smin, t |-> aux.win0.tmin]
        /\ aux.anchors[LastIndex(aux.anchors)] = [s |-> aux.win0.smax, t |-> aux.win0.tmax]

\* An anchored call with four anchors in the window, in different orders on
\* the two sides, of which segments returned two.
C20_Witness ==
    /\ Anchored
    /\ Len(AnchorIDs(aux.pre.x0, aux.win0.smin, aux.win0.smax)) = 4
    /\ Cardinality(InnerAnchors) = 2
    /\ aux.anchors[1].t + 1 < aux.anchors[2].t

----------------------------------------------------------------------------
(* internal/impl/api.go: preprocess on its own, on the change window of
   every pair of inputs over four values *)

\* impl.Diff up to the return of preprocess: the change bounds, the trivial
\* cases, then preprocess on the window.
CallPreprocess ==
    /\ pc = "start"
    /\ \E b \in {findChangeBounds(x, y)} :
          \E tr \in {handleTrivialBounds(Make(x, y), b.smin, b.smax, b.tmin, b.tmax)} :
             IF tr.trivial
             THEN /\ rx' = tr.rx
                  /\ ry' = tr.ry
                  /\ aux' = [noAux EXCEPT !.bounds = b]
             ELSE \E p \in {preprocess(Make(x, y), b.smin, b.smax, b.tmin, b.tmax, x, y)} :
                     /\ rx' = p.rx
                     /\ ry' = p.ry
                     /\ aux' = [noAux EXCEPT !.bounds = b, !.trivial = FALSE,
                                      !.pre = [x0 |-> p.x0, y0 |-> p.y0, xidx |-> p.xidx,
                                               yidx |-> p.yidx, counts |-> p.counts,
                                               nanchors |-> p.nanchors]]
    /\ pc' = "preprocessed"
    /\ UNCHANGED <<x, y, cfg, out>>

NextPre == CallPreprocess

SpecPre == InitAnchors /\ [][NextPre]_vars

Preprocessed == pc = "preprocessed" /\ ~aux.trivial

\* The positions of the change window.
WinX == aux.bounds.smin..(aux.bounds.smax - 1)
WinY == aux.bounds.tmin..(aux.bounds.tmax - 1)

\* The number of positions of the window of x / of y that hold the value v.
OccursX(v) == Cardinality({s \in WinX : At(x, s) = v})
OccursY(v) == Cardinality({t \in WinY : At(y, t) = v})

\* C21: after preprocess a position of x[smin:smax] is marked Delete iff its
\* value does not occur in y[tmin:tmax], a position of y[tmin:tmax] is marked
\* Insert iff its value does not occur in x[smin:smax], and nothing outside
\* the window is marked; xidx and yidx list the unmarked positions of the
\* window in increasing order; x0[i] = y0[j] iff x[xidx[i]] = y[yidx[j]];
\* and nanchors is the number of values that occur exactly once in
\* x[smin:smax] and exactly once in y[tmin:tmax].
C21_PreprocessFilters ==
    Preprocessed =>
        /\ \A s \in 0..Len(x) : rx[s] <=> (s \in WinX /\ OccursY(At(x, s)) = 0)
        /\ \A t \in 0..Len(y) : ry[t] <=> (t \in WinY /\ OccursX(At(y, t)) = 0)
        /\ Len(aux.pre.x0) = Len(aux.pre.xidx)
        /\ Len(aux.pre.y0) = Len(aux.pre.yidx)
        /\ {aux.pre.xidx[i] : i \in 1..Len(aux.pre.xidx)} = {s \in WinX : ~rx[s]}
        /\ {aux.pre.yidx[j] : j \in 1..Len(aux.pre.yidx)} = {t \in WinY : ~ry[t]}
        /\ \A i, k \in 1..Len(aux.pre.xidx) : i < k => aux.pre.xidx[i] < aux.pre.xidx[k]
        /\ \A j, k \in 1..Len(aux.pre.yidx) : j < k => aux.pre.yidx[j] < aux.pre.yidx[k]
        /\ \A i \in 1..Len(aux.pre.x0), j \in 1..Len(aux.pre.y0) :
              aux.pre.x0[i] = aux.pre.y0[j]
                  <=> At(x, aux.pre.xidx[i]) = At(y, aux.pre.yidx[j])
        /\ aux.pre.nanchors
              = Cardinality({v \in AnchorVals : OccursX(v) = 1 /\ OccursY(v) = 1})

\* A window in which preprocess drops a position on each side, retains a
\* value that occurs twice in x and finds exactly one anchor.
C21_Witness ==
    /\ Preprocessed
    /\ \E s \in WinX : rx[s]
    /\ \E t \in WinY : ry[t]
    /\ \E v \in AnchorVals : OccursX(v) = 2 /\ OccursY(v) >= 1
    /\ aux.pre.nanchors = 1

----------------------------------------------------------------------------
(* Claims about the grouping of the edit runs into hunks *)

\* The end of the run of set entries of v that starts at i.
RECURSIVE RunEnd(_, _, _)
RunEnd(v, i, n) == IF i < n /\ v[i] THEN RunEnd(v, i + 1, n) ELSE i

\* The runs of edits of the cursor walk over (rvx, rvy), from (s, t) on: each
\* run is the deletes x[s0:s1] and the inserts y[t0:t1] between two matches.
RECURSIVE EditRuns(_, _, _, _, _)
EditRuns(rvx, rvy, s, t, acc) ==
    IF s >= LastIndex(rvx) /\ t >= LastIndex(rvy) THEN acc
    ELSE IF rvx[s] \/ rvy[t]
    THEN LET s1 == RunEnd(rvx, s, LastIndex(rvx))
             t1 == RunEnd(rvy, t, LastIndex(rvy))
         IN  EditRuns(rvx, rvy, s1, t1,
                      Append(acc, [s0 |-> s, s1 |-> s1, t0 |-> t, t1 |-> t1]))
    ELSE EditRuns(rvx, rvy, s + 1, t + 1, acc)

\* The hunks of the grouper that hold the run r.
HunksOf(r) ==
    {i \in 1..Len(out.rhunks) :
        /\ out.rhunks[i].S0 <= r.s0 /\ r.s1 <= out.rhunks[i].S1
        /\ out.rhunks[i].T0 <= r.t0 /\ r.t1 <= out.rhunks[i].T1}

\* The number of matches after run k of runs: up to the next run, or up to
\* the end of the inputs after the last one.
MatchesAfter(runs, k) ==
    IF k < Len(runs) THEN runs[k + 1].s0 - runs[k].s1 ELSE Len(x) - runs[k].s1

\* C22: for valid result vectors and a context c >= 0 every run of edits lies
\* in exactly one hunk and every hunk holds a run; two successive runs lie in
\* the same hunk iff at most 2*c matches separate them; so a hunk ends after
\* a run followed by more than 2*c matches or by the end of the inputs, and
\* it ends exactly min(c, matches after that run) matches after the run.
C22_HunkGrouping ==
    HunksReturned =>
        With([runs \in {EditRuns(rx, ry, 0, 0, <<>>)} |->
          /\ \A k \in 1..Len(runs) : Cardinality(HunksOf(runs[k])) = 1
          /\ \A i \in 1..Len(out.rhunks) : \E k \in 1..Len(runs) : i \in HunksOf(runs[k])
          /\ \A k \in 1..(Len(runs) - 1) :
                (HunksOf(runs[k]) = HunksOf(runs[k + 1]))
                    <=> (MatchesAfter(runs, k) <= 2 * cfg.context)
          /\ \A k \in 1..Len(runs) :
                (k = Len(runs) \/ MatchesAfter(runs, k) > 2 * cfg.context) =>
                    \A i \in HunksOf(runs[k]) :
                        /\ out.rhunks[i].S1
                              = runs[k].s1 + Min2(cfg.context, MatchesAfter(runs, k))
                        /\ out.rhunks[i].T1
                              = runs[k].t1 + Min2(cfg.context, MatchesAfter(runs, k))])

\* Three runs of edits under a context of 1: two matches between the first
\* two, which share a hunk, three between the last two, which do not.
C22_Witness ==
    /\ HunksReturned
    /\ cfg.context = 1
    /\ Len(out.rhunks) = 2
    /\ With([runs \in {EditRuns(rx, ry, 0, 0, <<>>)} |->
          /\ Len(runs) = 3
          /\ MatchesAfter(runs, 1) = 2
          /\ MatchesAfter(runs, 2) = 3
          /\ HunksOf(runs[1]) = HunksOf(runs[2])])

----------------------------------------------------------------------------
(* Claims about the slides of the indentation heuristic *)

ApplyReturned == pc \in {"applied", "reapplied"} /\ aux.panic = ""

\* (rvx, rvy) encodes a valid edit script from x to y: the vectors have N+1
\* and M+1 entries, the sentinels are unset, the cursor walk ends at (N, M)
\* and pairs equal lines only.
ValidScript(rvx, rvy) ==
    /\ DOMAIN rvx = 0..Len(x) /\ DOMAIN rvy = 0..Len(y)
    /\ ~rvx[Len(x)] /\ ~rvy[Len(y)]
    /\ Len(x) - Popcount(rvx, 0, Len(x)) = Len(y) - Popcount(rvy, 0, Len(y))
    /\ walkPairsEqual(x, y, rvx, rvy, 0, 0)

\* C23: Apply on a valid edit script leaves a valid edit script after every
\* single slide (of rx in the first pass, against the ry it was called with;
\* of ry in the second pass, against the rx the first pass left) and at
\* return; the numbers of set entries of rx and of ry do not change, and
\* rx[N] and ry[M] stay unset.
C23_SlidesKeepScriptValid ==
    ApplyReturned /\ ValidScript(aux.rx0, aux.ry0) =>
        /\ \A i \in 1..Len(aux.stepsX) :
              /\ ValidScript(aux.stepsX[i], aux.ry0)
              /\ Popcount(aux.stepsX[i], 0, Len(x)) = Popcount(aux.rx0, 0, Len(x))
        /\ \A j \in 1..Len(aux.stepsY) :
              /\ ValidScript(rx, aux.stepsY[j])
              /\ Popcount(aux.stepsY[j], 0, Len(y)) = Popcount(aux.ry0, 0, Len(y))
        /\ ValidScript(rx, ry)
        /\ Popcount(rx, 0, Len(x)) = Popcount(aux.rx0, 0, Len(x))
        /\ Popcount(ry, 0, Len(y)) = Popcount(aux.ry0, 0, Len(y))

\* A call on a valid script in which both passes slid a group and which
\* returned a deletion at another place than it was.
C23_Witness ==
    /\ ApplyReturned
    /\ ValidScript(aux.rx0, aux.ry0)
    /\ Len(aux.stepsX) >= 2
    /\ Len(aux.stepsY) >= 1
    /\ rx # aux.rx0

\* C24: on a valid edit script Apply returns without any of its panics
\* ("scanner sync broken", "match disappeared", "best shift not found"): the
\* other-side scanner follows the main scanner through every nextGroup,
\* prevGroup and slide, and is at its last group when the main scanner is.
C24_ApplyDoesNotPanic ==
    pc \in {"applied", "reapplied"} /\ ValidScript(aux.rx0, aux.ry0) => aux.panic = ""

\* A call on a valid script whose first pass slid a group of deletions up
\* and down with the other scanner in step, and whose second pass slid a
\* group of insertions.
C24_Witness ==
    /\ pc = "applied"
    /\ aux.panic = ""
    /\ ValidScript(aux.rx0, aux.ry0)
    /\ Popcount(aux.ry0, 0, Len(y)) >= 1
    /\ Len(aux.stepsX) >= 3
    /\ Len(aux.stepsY) >= 2

----------------------------------------------------------------------------
(* Diff, Diff with forced anchoring and DiffFunc with == on the same input *)

\* The result of Diff in a state that the three calls are compared in: a
\* call of Diff without forced anchoring has returned.
DiffPlainReturned == DiffReturned /\ cfg.entry = "Diff" /\ ~cfg.force

vecEdits(d) == Popcount(d.rx, 0, Len(x)) + Popcount(d.ry, 0, Len(y))

\* C25 (as stated): for the same comparable input and mode, Diff, Diff with
\* ForceAnchoringHeuristic (accepted in mode Default only) and DiffFunc with
\* == return identical result vectors.
C25_IdenticalVectors ==
    DiffPlainReturned =>
        /\ With([d \in {DiffFunc(x, y, "eq", cfg)} |-> d.rx = rx /\ d.ry = ry])
        /\ cfg.mode = "default" =>
              With([d \in {Diff(x, y, [cfg EXCEPT !.force = TRUE])} |->
                       d.rx = rx /\ d.ry = ry])

\* C25 (amended): for the same comparable input and mode, Diff, Diff with
\* ForceAnchoringHeuristic (mode Default) and DiffFunc with == each return a
\* valid edit script from x to y; in mode Minimal Diff and DiffFunc return
\* scripts with the same number of edits.  The vectors themselves may differ.
C25_EquivalentScripts ==
    DiffPlainReturned =>
        /\ ValidScript(rx, ry)
        /\ With([d \in {DiffFunc(x, y, "eq", cfg)} |->
                    /\ d.panic = ""
                    /\ ValidScript(d.rx, d.ry)
                    /\ cfg.mode = "minimal" => vecEdits(d) = EditCount])
        /\ cfg.mode = "default" =>
              With([d \in {Diff(x, y, [cfg EXCEPT !.force = TRUE])} |->
                       d.panic = "" /\ ValidScript(d.rx, d.ry)])

\* Diff in mode Minimal has matched the first of two equal elements of x
\* where DiffFunc matches the second: two minimal scripts, different vectors.
C25_Witness ==
    /\ DiffPlainReturned /\ cfg.mode = "minimal"
    /\ Len(x) = 2 /\ x[1] = x[2] /\ ~rx[0] /\ rx[1]
    /\ With([d \in {DiffFunc(x, y, "eq", cfg)} |->
                d.rx[0] /\ ~d.rx[1] /\ vecEdits(d) = EditCount])

----------------------------------------------------------------------------
(* The GOOD_DIAGONAL exit of split *)

\* The diagonals [lo, hi] a search has reached after n iterations of d, in a
\* window with the diagonals kmin..kmax.
RECURSIVE DiagBounds(_, _, _, _, _)
DiagBounds(lo, hi, kmin, kmax, n) ==
    IF n = 0 THEN <<lo, hi>>
    ELSE DiagBounds(IF lo > kmin THEN lo - 1 ELSE lo + 1,
                    IF hi < kmax THEN hi + 1 ELSE hi - 1, kmin, kmax, n - 1)

CallV0(c) == (Cardinality(DOMAIN c.vf) - 1) \div 2

InWindow(c, s, t) == c.smin <= s /\ s < c.smax /\ c.tmin <= t /\ t < c.tmax

AbsDiff(a, b) == IF a >= b THEN a - b ELSE b - a

\* The forward endpoints of the iteration split call c returned in: the
\* diagonal, the endpoint, its score and the number of diagonal steps its
\* path ends with.
ForwardEndpoints(c) ==
    LET fmid == c.smin - c.tmin
        b    == DiagBounds(fmid, fmid, c.smin - c.tmax, c.smax - c.tmin, c.d)
    IN  {[fwd |-> TRUE, s |-> c.vf[k + CallV0(c)], t |-> c.vf[k + CallV0(c)] - k,
          v |-> (c.vf[k + CallV0(c)] - c.smin) + (c.vf[k + CallV0(c)] - k - c.tmin)
                  - AbsDiff(fmid, c.d),
          diag |-> LET pk == IF c.vf[k + CallV0(c) - 1] < c.vf[k + CallV0(c) + 1]
                             THEN k + 1 ELSE k - 1
                       ps == c.vf[pk + CallV0(c)]
                   IN  Min2(c.vf[k + CallV0(c)] - ps, (c.vf[k + CallV0(c)] - k) - (ps - pk))] :
         k \in {j \in b[1]..b[2] : (j - b[1]) % 2 = 0}}

BackwardEndpoints(c) ==
    LET bmid == c.smax - c.tmax
        b    == DiagBounds(bmid, bmid, c.smin - c.tmax, c.smax - c.tmin, c.d)
    IN  {[fwd |-> FALSE, s |-> c.vb[k + CallV0(c)], t |-> c.vb[k + CallV0(c)] - k,
          v |-> (c.smax - c.vb[k + CallV0(c)]) + (c.tmax - (c.vb[k + CallV0(c)] - k))
                  - AbsDiff(bmid, c.d),
          diag |-> LET pk == IF c.vb[k + CallV0(c) - 1] < c.vb[k + CallV0(c) + 1]
                             THEN k - 1 ELSE k + 1
                       ps == c.vb[pk + CallV0(c)]
                   IN  Min2(ps - c.vb[k + CallV0(c)], (ps - pk) - (c.vb[k + CallV0(c)] - k))] :
         k \in {j \in b[1]..b[2] : (j - b[1]) % 2 = 0}}

\* The endpoints GOOD_DIAGONAL may pick according to the description: inside
\* the window, score above goodDiagMagic*d, at least goodDiagMinLen diagonal
\* steps.
GoodEndpoints(c) ==
    {e \in ForwardEndpoints(c) \cup BackwardEndpoints(c) :
        InWindow(c, e.s, e.t) /\ e.v > cfg.lim.magic * c.d /\ e.diag >= cfg.lim.minLen}

\* The snake of endpoint e is the one split call c returned.
SnakeOf(c, e) ==
    IF e.fwd THEN c.s1 = e.s /\ c.t1 = e.t /\ c.s0 = e.s - e.diag /\ c.t0 = e.t - e.diag
                  /\ c.opt0 /\ ~c.opt1
    ELSE c.s0 = e.s /\ c.t0 = e.t /\ c.s1 = e.s + e.diag /\ c.t1 = e.t + e.diag
         /\ ~c.opt0 /\ c.opt1

GoodDiagonalCalls == {c \in SplitCalls : c.exit = "good_diagonal"}

\* C26: a split that exits through GOOD_DIAGONAL was called with optimal
\* false and returns, in an iteration d >= goodDiagCostLimit, a snake of at
\* least goodDiagMinLen diagonal steps that belongs to an endpoint with the
\* highest score among the forward and backward endpoints whose score exceeds
\* goodDiagMagic*d and whose path ends with at least goodDiagMinLen diagonal
\* steps.
C26_GoodDiagonalPick ==
    \A c \in GoodDiagonalCalls :
        /\ ~c.optimal /\ c.d >= cfg.lim.diagCost
        /\ c.s1 - c.s0 >= cfg.lim.minLen
        /\ \E e \in GoodEndpoints(c) :
              /\ SnakeOf(c, e)
              /\ \A o \in GoodEndpoints(c) : o.v <= e.v

----------------------------------------------------------------------------
(* When diffDefault anchors: Diff in mode Default, without forced          *)
(* anchoring, on the inputs of SpecAnchors, with the calls of split        *)
(* recorded.                                                               *)

NextThreshold == CallDiffTraced("default", FALSE)

SpecThreshold == InitAnchors /\ [][NextThreshold]_vars

DefaultReturned ==
    pc = "done" /\ aux.panic = "" /\ ~aux.trivial /\ cfg.mode = "default" /\ ~cfg.force

\* diffDefault went through the loop over the segments.
Partitioned == aux.anchors # <<>>

\* |x0| + |y0|
ReducedLen == Len(aux.pre.x0) + Len(aux.pre.y0)

\* A single invocation of compare on the window init left, with optimal
\* false: the first call of split, if the window has elements on both sides,
\* is on that window and is not asked for an optimal path (the calls for the
\* rectangles around its snake take optimal from what split returned).
SingleInvocation ==
    IF aux.win0.smin < aux.win0.smax /\ aux.win0.tmin < aux.win0.tmax
    THEN    /\ out.calls # <<>>
            /\ ~out.calls[1].optimal
            /\ out.calls[1].smin = aux.win0.smin /\ out.calls[1].smax = aux.win0.smax
            /\ out.calls[1].tmin = aux.win0.tmin /\ out.calls[1].tmax = aux.win0.tmax
    ELSE out.calls = <<>>

\* Every call of split lies in one of the gaps between the extended anchors,
\* and the call on a whole gap is not asked for an optimal path.
CallsInGaps ==
    \A c \in SplitCalls :
        \E k \in 1..Len(aux.gaps) :
           /\ aux.gaps[k].done.s <= c.smin /\ c.smax <= aux.gaps[k].start.s
           /\ aux.gaps[k].done.t <= c.tmin /\ c.tmax <= aux.gaps[k].start.t
           /\ (aux.gaps[k].done.s = c.smin /\ c.smax = aux.gaps[k].start.s
               /\ aux.gaps[k].done.t = c.tmin /\ c.tmax = aux.gaps[k].start.t)
                 => ~c.optimal

----------------------------------------------------------------------------
(* The cost limit of the TOO_EXPENSIVE exit *)

RECURSIVE Pow(_, _)
Pow(b, e) == IF e = 0 THEN 1 ELSE b * Pow(b, e - 1)

\* The number of base-4 digits of n (0 for n = 0): the least k with n < 4^k.
Base4Digits(n) == CHOOSE k \in 0..(n + 1) : n < Pow(4, k) /\ (k > 0 => Pow(4, k - 1) <= n)

\* The next power of four of n: the least power of four above n.
NextPow4(n) == Pow(4, Base4Digits(n))

TooExpensiveCalls == {c \in SplitCalls : c.exit = "too_expensive"}

\* C28 (as stated): init sets costLimit to max(minCostLimit, next_pow4(N+M))
\* for the window N+M it returns, and split exits through TOO_EXPENSIVE only
\* in an iteration d >= costLimit.
C28_CostLimitNextPow4 ==
    \A c \in SplitCalls :
        /\ c.costLimit = Max2(cfg.lim.minCost, NextPow4(Diagonals))
        /\ c.exit = "too_expensive" => c.d >= c.costLimit

\* C28 (amended): init sets costLimit to max(minCostLimit, 2^k), k the number
\* of base-4 digits of N+M, which is the square root of the next power of
\* four of N+M; and split exits through TOO_EXPENSIVE only in an iteration
\* d >= costLimit.
C28_CostLimitRoot ==
    \A c \in SplitCalls :
        /\ c.costLimit = Max2(cfg.lim.minCost, Pow(2, Base4Digits(Diagonals)))
        /\ c.exit = "too_expensive" => c.d >= c.costLimit

\* A split that gave up through TOO_EXPENSIVE with a cost limit above the
\* lower bound, in a window of more than four elements.
C28_Witness ==
    \E c \in TooExpensiveCalls :
        /\ c.costLimit > cfg.lim.minCost /\ c.d >= c.costLimit
        /\ Diagonals > 4 /\ c.costLimit = 4

----------------------------------------------------------------------------
(* The score of a shift *)

\* The blank lines after the split that add counts: the split line, if it is
\* blank, and the blank lines that follow it.
BlankAfter(m) == IF m.indent = -1 THEN 1 + m.postBlank ELSE 0

BlankAround(m) == m.preBlank + BlankAfter(m)

\* The indent add uses: that of the split line, or of the first non-blank
\* line after it when the split line is blank.
EffectiveIndent(m) == IF m.indent = -1 THEN m.postIndent ELSE m.indent

\* The relative-indent weight that applies to m, 0 if none does.
RelativeIndentWeight(m) ==
    LET indent == EffectiveIndent(m)
        blank  == BlankAround(m) # 0
    IN  IF indent = -1 \/ m.preIndent = -1 \/ indent = m.preIndent THEN 0
        ELSE IF indent > m.preIndent
             THEN IF blank THEN relativeIndentWithBlankPenalty ELSE relativeIndentPenalty
        ELSE IF m.postIndent # -1 /\ m.postIndent > indent
             THEN IF blank THEN relativeOutdentWithBlankPenalty ELSE relativeOutdentPenalty
        ELSE IF blank THEN relativeDentWithBlankPenalty ELSE relativeDentPenalty

\* The sum of the contributions of the table that apply to m.
Contribution(m) ==
    (IF m.preIndent = -1 /\ m.preBlank = 0 THEN startOfFilePenalty ELSE 0)
    + (IF m.endOfFile THEN endOfFilePenalty ELSE 0)
    + totalBlankWeight * BlankAround(m)
    + postBlankWeight * BlankAfter(m)
    + RelativeIndentWeight(m)

\* The scores a pass over lines computed are the sums of the contributions of
\* the two measures of each shift.
ScoresAreSums(lines, scored) ==
    \A i \in 1..Len(scored) :
        LET m1 == measureShift(lines, scored[i].shift)
            m2 == measureShift(lines, scored[i].shift - scored[i].grpLen)
        IN  /\ scored[i].score.penalty = Contribution(m1) + Contribution(m2)
            /\ scored[i].score.effectiveIndent = EffectiveIndent(m1) + EffectiveIndent(m2)

\* C29: every add increases penalty by the sum of the contributions of the
\* table that apply to the measure (+1 for a split with no non-blank line
\* before it, +21 at the end of the file, -30 per blank line around the
\* split, +6 per blank line after it, and the one relative-indent weight that
\* applies) and effectiveIndent by indent, or by postIndent for a blank split
\* line; the score of a shift is the sum over its two measures.
C29_ScoreIsSumOfContributions ==
    pc \in {"applied", "reapplied"} =>
        ScoresAreSums(x, aux.scoredX) /\ ScoresAreSums(y, aux.scoredY)

----------------------------------------------------------------------------
(* How far a group slides *)

\* The groups the two passes of the finished Apply have slid.
MovedGroups ==
    {aux.movedX[i] : i \in 1..Len(aux.movedX)} \cup {aux.movedY[i] : i \in 1..Len(aux.movedY)}

\* The lines between the place of a group before and after its slides.
SlideDistance(g) == AbsDiff(g.downs, g.ups)

\* C30: Apply never slides a group more than maxSliding lines: counting the
\* slides made to merge with neighbours, to align with the other side and to
\* reach the best-scoring shift, a group ends at most maxSliding lines from
\* where the pass found it.
C30_SlideCap ==
    pc \in {"applied", "reapplied"} /\ aux.panic = "" =>
        \A g \in MovedGroups : SlideDistance(g) <= aux.sliding

====
